---- MODULE Spec2Model ----
(***************************************************************************)
(* State-machine model of the scene-editor viewport (SceneEditorCanvas),   *)
(* its command bus (EditorCommandLibrary) and the editor events it emits.  *)
(*                                                                         *)
(* One effect run of the initialization effect is called a "mount"; the    *)
(* refs of the component (rendererRef, orbitRef, ...) outlive mounts, the  *)
(* closure variables of the effect (cancelled, cleanupListeners) are per   *)
(* mount.                                                                  *)
(***************************************************************************)
EXTENDS Integers, Sequences, FiniteSets, TLC

(***************************************************************************)
(* Bounds of the model.                                                    *)
(***************************************************************************)
MaxMounts == 2
MaxOrbits == 2
\* mounts in the sub-systems that follow one viewport closely
FocusMounts == 2

Mounts == 1..MaxMounts

Nil == "null"

(***************************************************************************)
(* Exact rational numbers <<numerator, denominator>>, denominator > 0,     *)
(* kept in lowest terms so that equal numbers are equal values.            *)
(***************************************************************************)
RECURSIVE GCD(_, _)
GCD(a, b) == IF b = 0 THEN a ELSE GCD(b, a % b)

Abs(x) == IF x < 0 THEN -x ELSE x

Rat(n, d) ==
  LET g == GCD(Abs(n), Abs(d))
      s == IF d < 0 THEN -1 ELSE 1
  IN  <<(s * n) \div g, (s * d) \div g>>

RInt(n) == <<n, 1>>
RMul(a, b) == Rat(a[1] * b[1], a[2] * b[2])
RDiv(a, b) == Rat(a[1] * b[2], a[2] * b[1])
RSub(a, b) == Rat(a[1] * b[2] - b[1] * a[2], a[2] * b[2])
RNeg(a) == <<-a[1], a[2]>>
RAbs(a) == <<Abs(a[1]), a[2]>>
RIsZero(a) == a[1] = 0

(***************************************************************************)
(* The scene graph handed to the viewport: an ordered object list with     *)
(* tags, in the shape of createSampleScene (two orthographic cameras, one  *)
(* of them with a degenerate frustum, and a group with nested meshes).     *)
(***************************************************************************)
ObjectIds == <<"camP", "camO", "camZ", "grid", "box", "group">>

VARIABLES
  sceneGraph,           \* the scene prop: "sample", "nocam" (a graph without
                        \* cameras), "late" (a graph whose cameras come after
                        \* other objects) or Nil (no scene supplied)
  visible,              \* per helper node: Object3D.visible
  tagIndex,             \* the scene graph's tag index: per key, its array
  held,                 \* the array the latest getByTag call handed its caller
  firstReturned,        \* what the latest getFirstByTag call returned
  touched,              \* history: the tag of the returned array a caller
                        \* changed last since the scene was supplied, or Nil
  unsubscribers         \* the functions subscribe returned to a subscriber that
                        \* keeps them, in order: the listener each was returned
                        \* for and how often it has been called (up to 2)

\* the objects list of a scene graph
ObjectsOf(scene) ==
  CASE scene = "sample" -> ObjectIds
    [] scene = "nocam"  -> <<"grid", "box", "group">>
    [] scene = "late"   -> <<"grid", "box", "camZ", "camP">>
    [] OTHER            -> <<>>

\* sceneGraph.objects of the scene supplied
SceneObjects == ObjectsOf(sceneGraph)

ObjectSet == {ObjectIds[i] : i \in 1..Len(ObjectIds)}

Tags(o) ==
  CASE o = "camP"  -> <<"type:camera", "camera:perspective">>
    [] o = "camO"  -> <<"type:camera", "camera:orthographic">>
    [] o = "camZ"  -> <<"type:camera", "camera:flat">>
    [] o = "grid"  -> <<"type:helper", "helper:grid">>
    [] o = "box"   -> <<"type:mesh", "shape:box">>
    [] o = "group" -> <<"type:mesh", "type:character">>

HasTag(o, tag) == \E i \in 1..Len(Tags(o)) : Tags(o)[i] = tag

\* object3d of a scene object: the node carries the object's id
Object3d(o) == o

\* direct children of a node (object3d.children)
Children(n) ==
  CASE n = "group"      -> {"group/mesh"}
    [] n = "group/mesh" -> {"group/mesh/part"}
    [] OTHER            -> {}

isCameraObject(n) == n \in {"camP", "camO", "camZ"}
isPerspectiveCamera(c) == c = "camP"
isOrthographicCamera(c) == c \in {"camO", "camZ"}

Cameras == {o \in ObjectSet : isCameraObject(Object3d(o))}

\* index.get(tag) is defined
Has(index, tag) == tag \in DOMAIN index

\* the inner loop of buildTagIndex: the object is pushed once per element of
\* its tags array, onto the key's array, or starts the key's array
RECURSIVE indexTags(_, _, _)
indexTags(index, obj, tags) ==
  IF tags = <<>> THEN index
  ELSE LET tag == Head(tags)
           next == IF Has(index, tag)
                   THEN [index EXCEPT ![tag] = Append(index[tag], obj)]
                   ELSE [t \in DOMAIN index \cup {tag} |->
                           IF t = tag THEN <<obj>> ELSE index[t]]
       IN  indexTags(next, obj, Tail(tags))

RECURSIVE indexObjects(_, _)
indexObjects(index, objs) ==
  IF objs = <<>> THEN index
  ELSE indexObjects(indexTags(index, Head(objs), Tags(Head(objs))), Tail(objs))

\* new Map()
EmptyIndex == [t \in {} |-> <<>>]

buildTagIndex(objs) == indexObjects(EmptyIndex, objs)

\* a returned array that is the index's own array
Spread_same(array) == [elements |-> array, fresh |-> FALSE]

\* [...array]: a new array with the same elements
Spread(array) == [elements |-> array, fresh |-> TRUE]

\* tagIndex.get(tag) ?? []
IndexedOrEmpty(tag) == IF Has(tagIndex, tag) THEN tagIndex[tag] ELSE <<>>

\* sceneGraph.getByTag / getFirstByTag over the tag index
getByTag(tag) == Spread(IndexedOrEmpty(tag)).elements

getFirstByTag(tag) ==
  IF Has(tagIndex, tag) /\ tagIndex[tag] # <<>> THEN tagIndex[tag][1] ELSE Nil

\* the selectableObjects prop (not supplied)
selectableObjects == <<>>

\* the selectable list: the allow-list if given, else every non-camera object
objects ==
  IF selectableObjects # <<>> THEN selectableObjects
  ELSE LET T(o) == ~isCameraObject(Object3d(o)) IN SelectSeq(SceneObjects, T)

\* the camera-capable scene objects, in list order
cameras == LET T(o) == isCameraObject(Object3d(o)) IN SelectSeq(SceneObjects, T)

\* Array.prototype.find over the elements that pass the test: the first of
\* them, or Nil
Find(passing) == IF passing = <<>> THEN Nil ELSE Head(passing)


(***************************************************************************)
(* Values the environment and the callers can supply.                      *)
(***************************************************************************)
\* sizes of the hosting region (clientWidth, clientHeight), non-zero
Sizes == {<<800, 600>>, <<1600, 600>>}

Modes == {"translate", "rotate", "scale"}

PresetNames == {"home", "front", "side", "top"}

\* a table with the top preset on the wrong axis
presets_topOnZ(p) ==
  CASE p = "home"  -> <<6, 4, 6>>
    [] p = "front" -> <<0, 0, 10>>
    [] p = "side"  -> <<10, 0, 0>>
    [] p = "top"   -> <<0, 0, 10>>

\* presets: the fixed camera positions
presets(p) ==
  CASE p = "home"  -> <<6, 4, 6>>
    [] p = "front" -> <<0, 0, 10>>
    [] p = "side"  -> <<10, 0, 0>>
    [] p = "top"   -> <<0, 10, 0>>

\* the default look-at point of a navigation controller
DefaultTarget == <<0, 1, 0>>

CameraTags == {"camera:perspective", "camera:orthographic", "camera:flat",
               "type:mesh", "missing"}

SelectTags == {"type:mesh", "type:camera", "missing"}

SelectIds == {"box", "group", "nope"}

\* defaultCameraTag prop values ("" when the prop is not supplied)
DefaultCameraTags == {"", "camera:orthographic"}

\* handler objects that can be handed to the command bus
Handlers == {"hA", "hB"}

\* nodes a pointer ray can hit: the selectable nodes and their descendants
RECURSIVE Descendants(_)
Descendants(n) ==
  Children(n) \cup UNION {Descendants(c) : c \in Children(n)}

HitNodes ==
  UNION {{Object3d(objects[i])} \cup Descendants(Object3d(objects[i])) :
           i \in 1..Len(objects)}

(***************************************************************************)
(* State.                                                                  *)
(***************************************************************************)
VARIABLES
  handler,              \* EditorCommandLibrary.handler: the single slot
  lastRegistered,       \* history: the argument of the latest register call
  unregistered,         \* history: unregister(lastRegistered) was called since
  cur,                  \* number of runs of the init effect so far
  live,                 \* the latest run's cleanup has not run yet
  defaultCameraTag,     \* the defaultCameraTag prop of the latest run
  phase,                \* per mount: "unused", "noscene", "loading", "cancelled",
                        \* "failed", "nocamera", "running"
  cancelled,            \* per mount: the closure's cancellation flag
  frameQueued,          \* per mount: a requestAnimationFrame callback is pending
  listeners,            \* per mount: pointerdown and resize listeners registered
  renderers,            \* per mount: the WebGLRenderer it created
  rendererRef,          \* mount whose renderer is in rendererRef.current, or 0
  controlConstructors,  \* both constructors stored in controlConstructors.current
  activeCameraRef,      \* camera in activeCameraRef.current, or Nil
  orbits,               \* per OrbitControls constructed so far: times disposed
  orbitRef,             \* index into orbits of orbitRef.current, or 0
  orbit,                \* camera, enabled and target of orbitRef.current
  transforms,           \* per mount: the TransformControls it created
  transformRef,         \* mount whose gizmo is in transformRef.current, or 0
  transformHelperRef,   \* mount whose gizmo node is in transformHelperRef.current, or 0
  selectedId,           \* React state selectedId
  selectedRef,          \* selectedRef.current
  transformMode,        \* React state transformMode
  transformModeRef,     \* transformModeRef.current
  orthoFrustumHeights,  \* remembered frustum height per camera, or Nil
  proj,                 \* per camera: aspect, left, right, top, bottom
  pose,                 \* per camera: position, up, lookAt
  viewport,             \* <<clientWidth, clientHeight>> of the hosting region
  lastOp,               \* the operation the last step performed
  calls,                \* handler methods the bus invoked in the last step
  emitted,              \* editor events emitted in the last step, in order
  loop,                 \* what the last step's frame callback did
  busListeners,         \* SceneEditorEventBus.listeners, in insertion order
  unsubscribedListeners,\* history: listeners whose unsubscribe function was
                        \* called since they were last subscribed
  delivered,            \* listener invocations of the last step, in order
  logged,               \* console.error messages of the last step
  shot                  \* what the last step's captureFrame did

busVars == <<handler, lastRegistered, unregistered>>

mountVars == <<cur, live, defaultCameraTag, phase, cancelled, frameQueued, listeners>>

resourceVars == <<renderers, rendererRef, controlConstructors, orbits, orbitRef,
                  orbit, transforms, transformRef, transformHelperRef>>

selectionVars == <<selectedId, selectedRef, transformMode, transformModeRef>>

cameraVars == <<activeCameraRef, orthoFrustumHeights, proj, pose, viewport>>

traceVars == <<lastOp, calls, emitted, loop>>

sceneVars == <<sceneGraph, visible>>

tagVars == <<tagIndex, held, firstReturned, touched>>

\* no array handed out yet
NoHeld == [tag |-> Nil, elements |-> <<>>, fresh |-> TRUE]

eventVars == <<busListeners, unsubscribedListeners>>

reportVars == <<delivered, logged, shot>>

vars == <<busVars, mountVars, resourceVars, selectionVars, cameraVars, traceVars,
          sceneVars, eventVars, reportVars, tagVars, unsubscribers>>

\* the gizmo's visual node of mount m
GizmoNode(m) == "gizmo" \o ToString(m)

\* the tags of the scene that start with "type:helper" or with "helper:"
HelperTags == {"type:helper", "helper:grid"}

\* tags.some((tag) => tag.startsWith("type:helper") || tag.startsWith("helper:"))
IsHelper(o) == \E tag \in HelperTags : HasTag(o, tag)

\* nodes of the scene objects tagged as helpers
HelperTagged == {o \in ObjectSet : IsHelper(o)}

\* every node captureFrame may hide
AuxNodes == {Object3d(o) : o \in HelperTagged} \cup {GizmoNode(m) : m \in Mounts}

\* the null a camera-state read returns, in the shape of a camera state
NullState == [position |-> <<>>, target |-> <<>>, up |-> <<>>]

NoShot == [result |-> "none", renderer |-> 0, hidden |-> {}, state |-> NullState]

NoLoop ==
  [mount |-> 0, updated |-> FALSE, rendered |-> FALSE, scheduled |-> FALSE,
   threw |-> FALSE]

NoOrbit == [camera |-> Nil, enabled |-> TRUE, target |-> <<0, 0, 0>>]

NoRenderer == [made |-> FALSE, attached |-> FALSE, size |-> <<0, 0>>, disposed |-> 0]

NoTransform ==
  [made |-> FALSE, camera |-> Nil, mode |-> "translate", object |-> Nil,
   inScene |-> FALSE, dragging |-> FALSE, disposed |-> 0]

\* createSampleScene: PerspectiveCamera(60, 1, ...), OrthographicCamera(-8, 8, 8, -8)
InitProj(c) ==
  CASE c = "camP" -> [aspect |-> RInt(1), left |-> RInt(0), right |-> RInt(0),
                      top |-> RInt(0), bottom |-> RInt(0)]
    [] c = "camO" -> [aspect |-> RInt(0), left |-> RInt(-8), right |-> RInt(8),
                      top |-> RInt(8), bottom |-> RInt(-8)]
    [] c = "camZ" -> [aspect |-> RInt(0), left |-> RInt(-1), right |-> RInt(1),
                      top |-> RInt(0), bottom |-> RInt(0)]

InitPose == [position |-> <<6, 4, 6>>, up |-> <<0, 1, 0>>, lookAt |-> <<0, 1, 0>>]

Init ==
  /\ handler = Nil
  /\ lastRegistered = Nil
  /\ unregistered = FALSE
  /\ cur = 0
  /\ live = FALSE
  /\ defaultCameraTag = ""
  /\ phase = [m \in Mounts |-> "unused"]
  /\ cancelled = [m \in Mounts |-> FALSE]
  /\ frameQueued = [m \in Mounts |-> FALSE]
  /\ listeners = [m \in Mounts |-> FALSE]
  /\ renderers = [m \in Mounts |-> NoRenderer]
  /\ rendererRef = 0
  /\ controlConstructors = FALSE
  /\ activeCameraRef = Nil
  /\ orbits = <<>>
  /\ orbitRef = 0
  /\ orbit = NoOrbit
  /\ transforms = [m \in Mounts |-> NoTransform]
  /\ transformRef = 0
  /\ transformHelperRef = 0
  /\ selectedId = Nil
  /\ selectedRef = Nil
  /\ transformMode = "translate"
  /\ transformModeRef = "translate"
  /\ orthoFrustumHeights = [c \in Cameras |-> Nil]
  /\ proj = [c \in Cameras |-> InitProj(c)]
  /\ pose = [c \in Cameras |-> InitPose]
  /\ viewport \in Sizes
  /\ lastOp = [op |-> "init", arg |-> ""]
  /\ calls = <<>>
  /\ emitted = <<>>
  /\ loop = NoLoop
  /\ sceneGraph = "sample"
  /\ visible = [n \in AuxNodes |-> TRUE]
  /\ tagIndex = buildTagIndex(SceneObjects)
  /\ held = NoHeld
  /\ firstReturned = Nil
  /\ touched = Nil
  /\ unsubscribers = <<>>
  /\ busListeners = <<>>
  /\ unsubscribedListeners = {}
  /\ delivered = <<>>
  /\ logged = <<>>
  /\ shot = NoShot


\* The component after its first commit: the register effect has handed the
\* bus a handler and the init effect has started loading the control modules.
InitMounted ==
  /\ handler = "hA"
  /\ lastRegistered = "hA"
  /\ unregistered = FALSE
  /\ cur = 1
  /\ live = TRUE
  /\ defaultCameraTag = ""
  /\ phase = [m \in Mounts |-> IF m = 1 THEN "loading" ELSE "unused"]
  /\ cancelled = [m \in Mounts |-> FALSE]
  /\ frameQueued = [m \in Mounts |-> FALSE]
  /\ listeners = [m \in Mounts |-> FALSE]
  /\ renderers = [m \in Mounts |-> NoRenderer]
  /\ rendererRef = 0
  /\ controlConstructors = FALSE
  /\ activeCameraRef = Nil
  /\ orbits = <<>>
  /\ orbitRef = 0
  /\ orbit = NoOrbit
  /\ transforms = [m \in Mounts |-> NoTransform]
  /\ transformRef = 0
  /\ transformHelperRef = 0
  /\ selectedId = Nil
  /\ selectedRef = Nil
  /\ transformMode = "translate"
  /\ transformModeRef = "translate"
  /\ orthoFrustumHeights = [c \in Cameras |-> Nil]
  /\ proj = [c \in Cameras |-> InitProj(c)]
  /\ pose = [c \in Cameras |-> InitPose]
  /\ viewport \in Sizes
  /\ lastOp = [op |-> "init", arg |-> ""]
  /\ calls = <<>>
  /\ emitted = <<>>
  /\ loop = NoLoop
  /\ sceneGraph = "sample"
  /\ visible = [n \in AuxNodes |-> TRUE]
  /\ tagIndex = buildTagIndex(SceneObjects)
  /\ held = NoHeld
  /\ firstReturned = Nil
  /\ touched = Nil
  /\ unsubscribers = <<>>
  /\ busListeners = <<>>
  /\ unsubscribedListeners = {}
  /\ delivered = <<>>
  /\ logged = <<>>
  /\ shot = NoShot

(***************************************************************************)
(* Helpers shared by the operations.                                       *)
(***************************************************************************)
Op(name, arg) == [op |-> name, arg |-> arg]

Trace(name, c, e, l) ==
  /\ lastOp' = Op(name, "")
  /\ calls' = c
  /\ emitted' = e
  /\ loop' = l

Ev(type, object, mode) == [type |-> type, object |-> object, mode |-> mode]

SelectEv(o) == Ev("select", o, "")
DeselectEv == Ev("deselect", Nil, "")

\* dispose() of a controller or renderer: counted, the count saturates at 2
Disposed(n) == IF n < 2 THEN n + 1 ELSE 2

\* x || 1
OrOne(x) == IF x = 0 THEN 1 ELSE x

\* the frustum height to fall back on when top - bottom is 0
DefaultFrustumHeight == 10

(***************************************************************************)
(* Command bus (EditorCommandLibrary).                                     *)
(***************************************************************************)
register(h) == handler' = h

unregister_clobber(h) == handler' = Nil

unregister(h) == handler' = IF handler = h THEN Nil ELSE handler

\* this.handler?.method(...): the handlers whose method the call invokes
Invoked_default(method) ==
  <<[handler |-> IF handler = Nil THEN "hA" ELSE handler, method |-> method]>>

Invoked(method) ==
  IF handler = Nil THEN <<>> ELSE <<[handler |-> handler, method |-> method]>>

(***************************************************************************)
(* Event bus (SceneEditorEventBus): a Set of listeners, iterated by        *)
(* Set.prototype.forEach, which visits entries in insertion order, skips   *)
(* entries deleted before their turn and visits entries added during the   *)
(* iteration.                                                              *)
(***************************************************************************)
\* listener callbacks a subscriber can hand to the bus
Listeners == {"la", "lb", "lc", "ld"}

\* what a listener does when it is invoked: la and lb only observe, lc calls
\* the unsubscribe function of la once la has one, ld subscribes la
ListenerDoes(l) ==
  CASE l = "lc" -> [kind |-> "unsubscribe", who |-> "la"]
    [] l = "ld" -> [kind |-> "subscribe", who |-> "la"]
    [] OTHER    -> [kind |-> "nothing", who |-> Nil]

\* position of l in the insertion order of set, 0 when absent
Position(set, l) ==
  IF \E i \in 1..Len(set) : set[i] = l
  THEN CHOOSE i \in 1..Len(set) : set[i] = l
  ELSE 0

\* Set.prototype.add / delete
SetAdd(set, l) == IF Position(set, l) # 0 THEN set ELSE Append(set, l)
SetDelete(set, l) == LET T(x) == x # l IN SelectSeq(set, T)

\* the bus after subscribe(l) / after the unsubscribe function of l
subscribe(bus, l) ==
  [bus EXCEPT !.listeners = SetAdd(bus.listeners, l),
              !.unsubscribed = bus.unsubscribed \ {l}]
unsubscribe_listener(bus, l) ==
  [bus EXCEPT !.listeners = SetDelete(bus.listeners, l),
              !.unsubscribed = bus.unsubscribed \cup {l}]

\* the bus after listener l ran
Reaction(bus, l) ==
  CASE ListenerDoes(l).kind = "subscribe"   -> subscribe(bus, ListenerDoes(l).who)
    [] /\ ListenerDoes(l).kind = "unsubscribe"
       /\ \/ Position(bus.listeners, ListenerDoes(l).who) # 0
          \/ ListenerDoes(l).who \in bus.unsubscribed
         -> unsubscribe_listener(bus, ListenerDoes(l).who)
    [] OTHER                                -> bus

\* this.listeners.forEach((listener) => listener(event)) from entry i on
RECURSIVE forEach(_, _, _)
forEach(bus, i, event) ==
  IF i > Len(bus.listeners) THEN bus
  ELSE LET l == bus.listeners[i]
           ran == [bus EXCEPT !.invoked = Append(bus.invoked,
                                                 [listener |-> l, event |-> event])]
           after == Reaction(ran, l)
           gone == \E k \in 1..i : Position(after.listeners, bus.listeners[k]) = 0
       IN  forEach(after, IF gone THEN i ELSE i + 1, event)

emit(bus, event) == forEach(bus, 1, event)

\* emit for each event of a sequence, in order
RECURSIVE emitAll(_, _)
emitAll(bus, events) ==
  IF events = <<>> THEN bus
  ELSE emitAll(emit(bus, Head(events)), Tail(events))

\* emitEvent: the events the step emitted go through the bus
Fanout ==
  LET bus == emitAll([listeners |-> busListeners,
                      unsubscribed |-> unsubscribedListeners,
                      invoked |-> <<>>], emitted')
  IN  /\ busListeners' = bus.listeners
      /\ unsubscribedListeners' = bus.unsubscribed
      /\ delivered' = bus.invoked

\* the step logs msgs with console.error, captures nothing and leaves the
\* scene prop and the helper nodes' visibility alone
Logs(msgs) ==
  /\ logged' = msgs
  /\ shot' = NoShot
  /\ UNCHANGED <<sceneVars, tagVars, unsubscribers>>

Quiet == Logs(<<>>)

(***************************************************************************)
(* Camera projection policy.                                               *)
(***************************************************************************)
\* a policy that re-derives the height from the current horizontal extent
StoredHeight_fromWidth(camera) ==
  RAbs(RSub(proj[camera].right, proj[camera].left))

\* the remembered frustum height configureCameraForViewport uses for camera
StoredHeight(camera) ==
  IF orthoFrustumHeights[camera] # Nil THEN orthoFrustumHeights[camera]
  ELSE LET span == RAbs(RSub(proj[camera].top, proj[camera].bottom))
       IN  IF RIsZero(span) THEN RInt(DefaultFrustumHeight) ELSE span

\* a policy that leaves the projection as it finds it
Configured_asFound(camera, vp) == proj[camera]

\* the projection of camera after configureCameraForViewport at size vp
Configured(camera, vp) ==
  LET width == OrOne(vp[1])
      height == OrOne(vp[2])
      halfHeight == RDiv(StoredHeight(camera), RInt(2))
      halfWidth == RMul(halfHeight, Rat(width, height))
  IN  IF isPerspectiveCamera(camera)
      THEN [proj[camera] EXCEPT !.aspect = Rat(width, height)]
      ELSE IF isOrthographicCamera(camera)
      THEN [proj[camera] EXCEPT !.left = RNeg(halfWidth), !.right = halfWidth,
                                !.top = halfHeight, !.bottom = RNeg(halfHeight)]
      ELSE proj[camera]

configureCameraForViewport(camera, vp) ==
  /\ proj' = [proj EXCEPT ![camera] = Configured(camera, vp)]
  /\ orthoFrustumHeights' =
       IF isOrthographicCamera(camera)
       THEN [orthoFrustumHeights EXCEPT ![camera] = StoredHeight(camera)]
       ELSE orthoFrustumHeights

\* new OrbitControls bound to whatever camera the old controller had
NewOrbit_rebound(camera) ==
  [camera |-> orbit.camera, enabled |-> TRUE, target |-> DefaultTarget]

\* new OrbitControls(camera, domElement); enableDamping; target.set(0, 1, 0)
NewOrbit(camera) ==
  [camera |-> camera, enabled |-> TRUE, target |-> DefaultTarget]

\* orbitRef.current?.dispose()
DisposeOrbit(os, ref) ==
  IF ref = 0 THEN os ELSE [os EXCEPT ![ref] = Disposed(os[ref])]

(***************************************************************************)
(* Lifecycle of the init effect.                                           *)
(***************************************************************************)
\* the init effect runs: a new mount starts loading the control modules; with
\* no scene supplied it logs and returns, without a cleanup
Mount(tag) ==
  /\ ~live
  /\ cur < MaxMounts
  /\ cur' = cur + 1
  /\ live' = TRUE
  /\ defaultCameraTag' = tag
  /\ phase' = [phase EXCEPT
                 ![cur + 1] = IF sceneGraph = Nil THEN "noscene" ELSE "loading"]
  /\ Trace("mount", <<>>, <<>>, NoLoop)
  /\ UNCHANGED <<busVars, cancelled, frameQueued, listeners, resourceVars,
                 selectionVars, cameraVars>>
  /\ Fanout
  /\ Logs(IF sceneGraph = Nil THEN <<"SceneEditorCanvas: no scene provided">>
          ELSE <<>>)

\* a choice that ignores the default-camera tag
ChosenCamera_untagged(tag) ==
  LET isCam(o) == isCameraObject(Object3d(o))
  IN  Find(SelectSeq(cameras, isCam))

\* the camera the init effect picks
ChosenCamera(tag) ==
  LET taggedDefault == IF tag # "" THEN getFirstByTag(tag) ELSE Nil
      taggedCamera ==
        IF taggedDefault # Nil /\ isCameraObject(Object3d(taggedDefault))
        THEN Object3d(taggedDefault) ELSE Nil
      isCam(o) == isCameraObject(Object3d(o))
      fallbackCamera == Find(SelectSeq(cameras, isCam))
  IN  IF taggedCamera # Nil THEN taggedCamera ELSE fallbackCamera

\* the test the continuation of the module load makes before any side effect
SeesCancelled_never(m) == FALSE

SeesCancelled(m) == cancelled[m]

\* the continuation of the module load finds the mount cancelled
LoadCancelled(m) ==
  /\ phase[m] = "loading"
  /\ SeesCancelled(m)
  /\ phase' = [phase EXCEPT ![m] = "cancelled"]
  /\ Trace("loadCancelled", <<>>, <<>>, NoLoop)
  /\ UNCHANGED <<busVars, cur, live, defaultCameraTag, cancelled, frameQueued,
                 listeners, resourceVars, selectionVars, cameraVars>>
  /\ Fanout
  /\ Quiet

\* a continuation that reports the failure and goes on to register the
\* listeners and start the loop
LoadCtorFailure_continues(m) ==
  /\ phase[m] = "loading"
  /\ ~SeesCancelled(m)
  /\ phase' = [phase EXCEPT ![m] = "failed"]
  /\ listeners' = [listeners EXCEPT ![m] = TRUE]
  /\ frameQueued' = [frameQueued EXCEPT ![m] = TRUE]
  /\ Trace("loadCtorFailure", <<>>, <<>>, NoLoop)
  /\ UNCHANGED <<busVars, cur, live, defaultCameraTag, cancelled,
                 resourceVars, selectionVars, cameraVars>>
  /\ Fanout
  /\ Logs(<<"Failed to load three.js control constructors">>)

\* a constructor failed to resolve: logged, nothing allocated
LoadCtorFailure(m) ==
  /\ phase[m] = "loading"
  /\ ~SeesCancelled(m)
  /\ phase' = [phase EXCEPT ![m] = "failed"]
  /\ Trace("loadCtorFailure", <<>>, <<>>, NoLoop)
  /\ UNCHANGED <<busVars, cur, live, defaultCameraTag, cancelled, frameQueued,
                 listeners, resourceVars, selectionVars, cameraVars>>
  /\ Fanout
  /\ Logs(<<"Failed to load three.js control constructors">>)

\* the scene offers no camera: the constructors are stored and the renderer
\* is created and attached, then the continuation logs and returns
LoadNoCamera(m) ==
  /\ phase[m] = "loading"
  /\ ~SeesCancelled(m)
  /\ ChosenCamera(defaultCameraTag) = Nil
  /\ phase' = [phase EXCEPT ![m] = "nocamera"]
  /\ controlConstructors' = TRUE
  /\ renderers' = [renderers EXCEPT
                     ![m] = [made |-> TRUE, attached |-> TRUE, size |-> viewport,
                             disposed |-> 0]]
  /\ rendererRef' = m
  /\ Trace("loadNoCamera", <<>>, <<>>, NoLoop)
  /\ UNCHANGED <<busVars, cur, live, defaultCameraTag, cancelled, frameQueued,
                 listeners, orbits, orbitRef, orbit, transforms, transformRef,
                 transformHelperRef, selectionVars, cameraVars>>
  /\ Fanout
  /\ Logs(<<"SceneEditorCanvas: no camera available in the provided scene">>)

\* the continuation runs to the end: renderer, camera, controllers, listeners,
\* first call of animate. helperOk: the gizmo's node is an Object3D.
LoadSuccess(m, helperOk) ==
  LET chosenCamera == ChosenCamera(defaultCameraTag) IN
  /\ phase[m] = "loading"
  /\ ~SeesCancelled(m)
  /\ chosenCamera # Nil
  /\ Len(orbits) < MaxOrbits
  /\ phase' = [phase EXCEPT ![m] = "running"]
  /\ controlConstructors' = TRUE
  /\ renderers' = [renderers EXCEPT
                     ![m] = [made |-> TRUE, attached |-> TRUE, size |-> viewport,
                             disposed |-> 0]]
  /\ rendererRef' = m
  /\ activeCameraRef' = chosenCamera
  /\ configureCameraForViewport(chosenCamera, viewport)
  /\ orbits' = Append(orbits, 0)
  /\ orbitRef' = Len(orbits) + 1
  /\ orbit' = NewOrbit(chosenCamera)
  /\ transforms' = [transforms EXCEPT
                      ![m] = [made |-> TRUE, camera |-> chosenCamera,
                              mode |-> "translate", object |-> Nil,
                              inScene |-> helperOk, dragging |-> FALSE,
                              disposed |-> 0]]
  /\ transformRef' = IF helperOk THEN m ELSE transformRef
  /\ transformHelperRef' = IF helperOk THEN m ELSE transformHelperRef
  /\ listeners' = [listeners EXCEPT ![m] = TRUE]
  /\ frameQueued' = [frameQueued EXCEPT ![m] = TRUE]
  /\ Trace("loadSuccess", <<>>, <<>>,
           [mount |-> m, updated |-> TRUE, rendered |-> TRUE, scheduled |-> TRUE,
            threw |-> FALSE])
  /\ UNCHANGED <<busVars, cur, live, defaultCameraTag, cancelled, selectionVars,
                 pose, viewport>>
  /\ Fanout
  /\ Logs(IF helperOk THEN <<>>
          ELSE <<"TransformControls did not initialize as an Object3D">>)

\* the test animate makes at the top of every step
animate_ignores_flag(m) == FALSE

\* a test that lets the frames of an old mount through while a newer mount
\* is up
animate_cancelled_unlessLive(m) == cancelled[m] /\ ~live

\* a test that always finds the mount cancelled
animate_cancelled_always(m) == TRUE

animate_cancelled(m) == cancelled[m]

\* what can throw in a frame step: nothing, orbitRef.current.update() or
\* renderer.render()
FrameFailures == {"none", "update", "render"}

\* a frame step that asks for the next frame once its work is done
Rescheduled_afterWork(failure) == failure = "none"

\* requestAnimationFrame(animate) has been called when the work of the step
\* begins, whatever that work does
Rescheduled(failure) == TRUE

\* a queued frame callback runs; failure names the call of the step that
\* throws
animateFrame(m, failure) ==
  /\ frameQueued[m]
  /\ failure = "update" => orbitRef # 0
  /\ IF animate_cancelled(m)
     THEN /\ failure = "none"
          /\ frameQueued' = [frameQueued EXCEPT ![m] = FALSE]
          /\ Trace("animate", <<>>, <<>>, [NoLoop EXCEPT !.mount = m])
     ELSE /\ frameQueued' = [frameQueued EXCEPT ![m] = Rescheduled(failure)]
          /\ Trace("animate", <<>>, <<>>,
                   [mount |-> m,
                    updated |-> orbitRef # 0 /\ failure # "update",
                    rendered |-> failure = "none",
                    scheduled |-> Rescheduled(failure),
                    threw |-> failure # "none"])
  /\ UNCHANGED <<busVars, cur, live, defaultCameraTag, phase, cancelled, listeners,
                 resourceVars, selectionVars, cameraVars>>
  /\ Fanout
  /\ Quiet

\* a queued frame callback runs and nothing throws
animate(m) == animateFrame(m, "none")

\* the effect run of a mount without a scene ends: it returned no cleanup
TeardownNoScene ==
  /\ live
  /\ phase[cur] = "noscene"
  /\ live' = FALSE
  /\ Trace("teardown", <<>>, <<>>, NoLoop)
  /\ UNCHANGED <<busVars, cur, defaultCameraTag, phase, cancelled, frameQueued,
                 listeners, resourceVars, selectionVars, cameraVars>>
  /\ Fanout
  /\ Quiet

\* the cleanup of the init effect
Teardown ==
  LET m == cur IN
  /\ live
  /\ phase[m] # "noscene"
  /\ live' = FALSE
  /\ cancelled' = [cancelled EXCEPT ![m] = TRUE]
  /\ listeners' = [listeners EXCEPT ![m] = FALSE]
  /\ orbits' = DisposeOrbit(orbits, orbitRef)
  /\ transforms' =
       [t \in Mounts |->
          LET a == IF t = transformRef
                   THEN [transforms[t] EXCEPT
                           !.disposed = Disposed(transforms[t].disposed),
                           !.dragging = FALSE]
                   ELSE transforms[t]
          IN  IF t = transformHelperRef THEN [a EXCEPT !.inScene = FALSE] ELSE a]
  /\ renderers' =
       IF rendererRef = 0 THEN renderers
       ELSE [renderers EXCEPT
               ![rendererRef].disposed = Disposed(renderers[rendererRef].disposed),
               ![rendererRef].attached = FALSE]
  /\ transformHelperRef' = 0
  /\ Trace("teardown", <<>>, <<>>, NoLoop)
  /\ UNCHANGED <<busVars, cur, defaultCameraTag, phase, frameQueued, rendererRef,
                 controlConstructors, orbitRef, orbit, transformRef, selectionVars,
                 cameraVars>>
  /\ Fanout
  /\ Quiet


(***************************************************************************)
(* The viewport's callbacks. Each states the effect of one call on the     *)
(* component's state and the events it emits.                              *)
(***************************************************************************)
\* transformRef.current.attach(node) / detach()
Attach(node) ==
  transforms' = IF transformRef = 0 THEN transforms
                ELSE [transforms EXCEPT ![transformRef].object = node]

\* switch-camera command
setActiveCameraByTag(tag) ==
  LET taggedCamera == getFirstByTag(tag)
      cameraCandidate ==
        IF taggedCamera # Nil /\ isCameraObject(Object3d(taggedCamera))
        THEN Object3d(taggedCamera) ELSE Nil
      camera == IF cameraCandidate # Nil THEN cameraCandidate ELSE activeCameraRef
  IN
  /\ emitted' = <<>>
  /\ IF rendererRef = 0 \/ ~controlConstructors \/ camera = Nil
     THEN UNCHANGED <<resourceVars, selectionVars, cameraVars>>
     ELSE /\ Len(orbits) < MaxOrbits
          /\ configureCameraForViewport(camera, viewport)
          /\ activeCameraRef' = camera
          /\ orbits' = Append(DisposeOrbit(orbits, orbitRef), 0)
          /\ orbitRef' = Len(orbits) + 1
          /\ orbit' = NewOrbit(camera)
          /\ transforms' = IF transformRef = 0 THEN transforms
                           ELSE [transforms EXCEPT ![transformRef].camera = camera]
          /\ UNCHANGED <<renderers, rendererRef, controlConstructors, transformRef,
                         transformHelperRef, selectionVars, pose, viewport>>

\* setTransformMode is the React state setter; the transformMode effect runs
\* when the state value changed
setTransformMode(mode) ==
  /\ emitted' = <<>>
  /\ transformMode' = mode
  /\ IF mode # transformMode /\ transformRef # 0
     THEN /\ transformModeRef' = mode
          /\ transforms' = [transforms EXCEPT ![transformRef].mode = mode]
     ELSE UNCHANGED <<transformModeRef, transforms>>
  /\ UNCHANGED <<renderers, rendererRef, controlConstructors, orbits, orbitRef,
                 orbit, transformRef, transformHelperRef, selectedId, selectedRef,
                 cameraVars>>

\* a preset move that also drops the selection
moveCameraToPreset_clearing(preset) ==
  /\ selectedId' = Nil
  /\ selectedRef' = Nil
  /\ Attach(Nil)
  /\ emitted' = <<DeselectEv>>
  /\ UNCHANGED <<renderers, rendererRef, controlConstructors, orbits, orbitRef,
                 orbit, transformRef, transformHelperRef, transformMode,
                 transformModeRef, cameraVars>>

moveCameraToPreset(preset) ==
  /\ emitted' = <<>>
  /\ IF activeCameraRef = Nil \/ orbitRef = 0
     THEN UNCHANGED <<pose, orbit>>
     ELSE /\ pose' = [pose EXCEPT ![activeCameraRef].position = presets(preset),
                                  ![activeCameraRef].lookAt = DefaultTarget]
          /\ orbit' = [orbit EXCEPT !.target = DefaultTarget]
  /\ UNCHANGED <<renderers, rendererRef, controlConstructors, orbits, orbitRef,
                 transforms,
                 transformRef, transformHelperRef, selectionVars, activeCameraRef,
                 orthoFrustumHeights, proj, viewport>>

\* select by id
handleSelectFromList(id) ==
  LET T(o) == o = id
      found == Find(SelectSeq(objects, T))
  IN
  /\ selectedId' = id
  /\ IF found # Nil /\ transformRef # 0
     THEN /\ Attach(Object3d(found))
          /\ selectedRef' = found
          /\ emitted' = <<SelectEv(found)>>
     ELSE /\ emitted' = <<>>
          /\ UNCHANGED <<transforms, selectedRef>>
  /\ UNCHANGED <<renderers, rendererRef, controlConstructors, orbits, orbitRef,
                 orbit, transformRef, transformHelperRef, transformMode,
                 transformModeRef, cameraVars>>

\* select by tag
handleSelectByTag(tag) ==
  LET found == getFirstByTag(tag) IN
  /\ IF found # Nil /\ transformRef # 0
     THEN /\ selectedId' = found
          /\ Attach(Object3d(found))
          /\ selectedRef' = found
          /\ emitted' = <<SelectEv(found)>>
     ELSE /\ emitted' = <<>>
          /\ UNCHANGED <<selectedId, transforms, selectedRef>>
  /\ UNCHANGED <<renderers, rendererRef, controlConstructors, orbits, orbitRef,
                 orbit, transformRef, transformHelperRef, transformMode,
                 transformModeRef, cameraVars>>

clearSelection ==
  /\ selectedId' = Nil
  /\ Attach(Nil)
  /\ selectedRef' = Nil
  /\ emitted' = <<DeselectEv>>
  /\ UNCHANGED <<renderers, rendererRef, controlConstructors, orbits, orbitRef,
                 orbit, transformRef, transformHelperRef, transformMode,
                 transformModeRef, cameraVars>>

(***************************************************************************)
(* Bus commands: this.handler?.method(args).                               *)
(***************************************************************************)
NotDispatched ==
  /\ emitted' = <<>>
  /\ UNCHANGED <<resourceVars, selectionVars, cameraVars>>

CmdSetCameraByTag(tag) ==
  /\ calls' = Invoked("setCameraByTag")
  /\ IF calls' = <<>> THEN NotDispatched ELSE setActiveCameraByTag(tag)
  /\ lastOp' = Op("setCameraByTag", tag)
  /\ loop' = NoLoop
  /\ UNCHANGED <<busVars, mountVars>>
  /\ Fanout
  /\ Quiet

CmdSetTransformMode(mode) ==
  /\ calls' = Invoked("setTransformMode")
  /\ IF calls' = <<>> THEN NotDispatched ELSE setTransformMode(mode)
  /\ lastOp' = Op("setTransformMode", mode)
  /\ loop' = NoLoop
  /\ UNCHANGED <<busVars, mountVars>>
  /\ Fanout
  /\ Quiet

CmdMoveCameraToPreset(preset) ==
  /\ calls' = Invoked("moveCameraToPreset")
  /\ IF calls' = <<>> THEN NotDispatched ELSE moveCameraToPreset(preset)
  /\ lastOp' = Op("moveCameraToPreset", preset)
  /\ loop' = NoLoop
  /\ UNCHANGED <<busVars, mountVars>>
  /\ Fanout
  /\ Quiet

CmdSelectObject(id) ==
  /\ calls' = Invoked("selectObject")
  /\ IF calls' = <<>> THEN NotDispatched ELSE handleSelectFromList(id)
  /\ lastOp' = Op("selectObject", id)
  /\ loop' = NoLoop
  /\ UNCHANGED <<busVars, mountVars>>
  /\ Fanout
  /\ Quiet

CmdSelectObjectByTag(tag) ==
  /\ calls' = Invoked("selectObjectByTag")
  /\ IF calls' = <<>> THEN NotDispatched ELSE handleSelectByTag(tag)
  /\ lastOp' = Op("selectObjectByTag", tag)
  /\ loop' = NoLoop
  /\ UNCHANGED <<busVars, mountVars>>
  /\ Fanout
  /\ Quiet

CmdClearSelection ==
  /\ calls' = Invoked("clearSelection")
  /\ IF calls' = <<>> THEN NotDispatched ELSE clearSelection
  /\ lastOp' = Op("clearSelection", "")
  /\ loop' = NoLoop
  /\ UNCHANGED <<busVars, mountVars>>
  /\ Fanout
  /\ Quiet

Register(h) ==
  /\ register(h)
  /\ lastRegistered' = h
  /\ unregistered' = FALSE
  /\ lastOp' = Op("register", h)
  /\ calls' = <<>>
  /\ emitted' = <<>>
  /\ loop' = NoLoop
  /\ UNCHANGED <<mountVars, resourceVars, selectionVars, cameraVars>>
  /\ Fanout
  /\ Quiet

Unregister(h) ==
  /\ unregister(h)
  /\ lastRegistered' = lastRegistered
  /\ unregistered' = (unregistered \/ h = lastRegistered)
  /\ lastOp' = Op("unregister", h)
  /\ calls' = <<>>
  /\ emitted' = <<>>
  /\ loop' = NoLoop
  /\ UNCHANGED <<mountVars, resourceVars, selectionVars, cameraVars>>
  /\ Fanout
  /\ Quiet


(***************************************************************************)
(* Input events and the imperative handle.                                 *)
(***************************************************************************)
\* the object a hit node resolves to: identity or direct-child membership
Resolve(hit) ==
  LET T(o) == Object3d(o) = hit \/ hit \in Children(Object3d(o))
  IN  Find(SelectSeq(objects, T))

\* pointerdown on the render surface of mount m; hit is the node of the
\* nearest intersection, Nil when the ray hits nothing
onPointerDown(m, hit) ==
  /\ listeners[m]
  /\ IF hit # Nil
     THEN LET found == Resolve(hit) IN
          IF found # Nil /\ transformRef # 0
          THEN /\ selectedId' = found
               /\ selectedRef' = found
               /\ Attach(Object3d(found))
               /\ emitted' = <<SelectEv(found)>>
          ELSE /\ emitted' = <<>>
               /\ UNCHANGED <<selectedId, selectedRef, transforms>>
     ELSE /\ selectedId' = Nil
          /\ Attach(Nil)
          /\ selectedRef' = Nil
          /\ emitted' = <<DeselectEv>>
  /\ lastOp' = Op("pointerdown", hit)
  /\ calls' = <<>>
  /\ loop' = NoLoop
  /\ UNCHANGED <<busVars, mountVars, renderers, rendererRef, controlConstructors,
                 orbits, orbitRef, orbit, transformRef, transformHelperRef,
                 transformMode, transformModeRef, cameraVars>>
  /\ Fanout
  /\ Quiet

\* the window is resized to size sz; the resize listener of a mount, if one
\* is registered, runs handleResize
handleResize(sz) ==
  /\ viewport' = sz
  /\ IF \E m \in Mounts : listeners[m]
     THEN LET m == CHOOSE k \in Mounts : listeners[k] IN
          /\ renderers' = [renderers EXCEPT ![m].size = sz]
          /\ IF activeCameraRef # Nil
             THEN configureCameraForViewport(activeCameraRef, sz)
             ELSE UNCHANGED <<proj, orthoFrustumHeights>>
     ELSE UNCHANGED <<renderers, proj, orthoFrustumHeights>>
  /\ Trace("resize", <<>>, <<>>, NoLoop)
  /\ UNCHANGED <<busVars, mountVars, rendererRef, controlConstructors, orbits,
                 orbitRef, orbit, transforms, transformRef, transformHelperRef,
                 selectionVars, activeCameraRef, pose>>
  /\ Fanout
  /\ Quiet

\* the gizmo of mount m can deliver manipulation events: constructed, not
\* disposed, attached to a node
GizmoLive(m) ==
  /\ transforms[m].made
  /\ transforms[m].disposed = 0
  /\ transforms[m].object # Nil

\* what the mouseDown listener does to the navigation controller
mouseDownOrbit ==
  IF orbitRef = 0 THEN orbit ELSE [orbit EXCEPT !.enabled = FALSE]

\* the gizmo's mouseDown listener: manipulation starts
onMouseDown(m) ==
  /\ GizmoLive(m)
  /\ ~transforms[m].dragging
  /\ transforms' = [transforms EXCEPT ![m].dragging = TRUE]
  /\ orbit' = mouseDownOrbit
  /\ Trace("mouseDown", <<>>,
           <<Ev("transform-start", selectedRef, transformModeRef)>>, NoLoop)
  /\ UNCHANGED <<busVars, mountVars, renderers, rendererRef, controlConstructors,
                 orbits, orbitRef, transformRef, transformHelperRef, selectionVars,
                 cameraVars>>
  /\ Fanout
  /\ Quiet

\* the gizmo's objectChange listener
onObjectChange(m) ==
  /\ GizmoLive(m)
  /\ transforms[m].dragging
  /\ Trace("objectChange", <<>>,
           <<Ev("transform-change", selectedRef, transformModeRef)>>, NoLoop)
  /\ UNCHANGED <<busVars, mountVars, resourceVars, selectionVars, cameraVars>>
  /\ Fanout
  /\ Quiet

\* the gizmo's mouseUp listener: manipulation ends
onMouseUp(m) ==
  /\ transforms[m].made
  /\ transforms[m].disposed = 0
  /\ transforms[m].dragging
  /\ transforms' = [transforms EXCEPT ![m].dragging = FALSE]
  /\ orbit' = IF orbitRef = 0 THEN orbit ELSE [orbit EXCEPT !.enabled = TRUE]
  /\ Trace("mouseUp", <<>>,
           <<Ev("transform-end", selectedRef, transformModeRef)>>, NoLoop)
  /\ UNCHANGED <<busVars, mountVars, renderers, rendererRef, controlConstructors,
                 orbits, orbitRef, transformRef, transformHelperRef, selectionVars,
                 cameraVars>>
  /\ Fanout
  /\ Quiet

\* camera states a caller can hand to setCameraState
FrontState ==
  [position |-> <<0, 0, 10>>, target |-> <<0, 0, 0>>, up |-> <<0, 1, 0>>]

CameraStates ==
  {FrontState,
   [position |-> <<6, 4, 6>>, target |-> <<0, 1, 0>>, up |-> <<0, 0, 1>>]}

\* the name a written state is recorded under ("" for a state just read)
StateName(state) ==
  CASE state = FrontState -> "front"
    [] state \in CameraStates -> "tilted"
    [] OTHER -> ""

\* the state a name stands for
NamedState(name) == CHOOSE state \in CameraStates : StateName(state) = name

\* a write that leaves the camera's up vector upright
Posed_upright(state) ==
  [position |-> state.position, up |-> <<0, 1, 0>>, lookAt |-> state.target]

\* camera.position.set, camera.up.set, camera.lookAt of a state
Posed(state) ==
  [position |-> state.position, up |-> state.up, lookAt |-> state.target]

\* setCameraState applied to state, recorded as operation name
applyCameraState(name, state) ==
  /\ IF activeCameraRef = Nil
     THEN UNCHANGED <<pose, orbit, proj, orthoFrustumHeights>>
     ELSE /\ pose' = [pose EXCEPT ![activeCameraRef] = Posed(state)]
          /\ orbit' = IF orbitRef = 0 THEN orbit
                      ELSE [orbit EXCEPT !.target = state.target]
          /\ configureCameraForViewport(activeCameraRef, viewport)
  /\ lastOp' = Op(name, StateName(state))
  /\ calls' = <<>>
  /\ emitted' = <<>>
  /\ loop' = NoLoop
  /\ UNCHANGED <<busVars, mountVars, renderers, rendererRef, controlConstructors,
                 orbits, orbitRef, transforms, transformRef, transformHelperRef,
                 selectionVars, activeCameraRef, viewport>>
  /\ Fanout
  /\ Quiet

\* the handle's setCameraState
setCameraState(state) == applyCameraState("setCameraState", state)

\* scenes a host can pass as the scene prop
Scenes == {"sample", "nocam", Nil}

\* the scene prop changes between two runs of the init effect
SetScene(scene) ==
  /\ ~live
  /\ scene # sceneGraph
  /\ sceneGraph' = scene
  /\ tagIndex' = buildTagIndex(ObjectsOf(scene))
  /\ held' = NoHeld
  /\ firstReturned' = Nil
  /\ touched' = Nil
  /\ Trace("setScene", <<>>, <<>>, NoLoop)
  /\ UNCHANGED <<busVars, mountVars, resourceVars, selectionVars, cameraVars,
                 visible, unsubscribers>>
  /\ logged' = <<>>
  /\ shot' = NoShot
  /\ Fanout

\* the host or the controls library shows or hides a helper node
setVisible(node, v) ==
  /\ visible[node] # v
  /\ visible' = [visible EXCEPT ![node] = v]
  /\ Trace("setVisible", <<>>, <<>>, NoLoop)
  /\ UNCHANGED <<busVars, mountVars, resourceVars, selectionVars, cameraVars,
                 sceneGraph, tagVars, unsubscribers>>
  /\ logged' = <<>>
  /\ shot' = NoShot
  /\ Fanout

\* sceneEditorEvents.subscribe(l) called from outside a delivery
Subscribe(l) ==
  LET bus == subscribe([listeners |-> busListeners,
                        unsubscribed |-> unsubscribedListeners,
                        invoked |-> <<>>], l)
  IN  /\ busListeners' = bus.listeners
      /\ unsubscribedListeners' = bus.unsubscribed
      /\ delivered' = <<>>
      /\ lastOp' = Op("subscribe", l)
      /\ calls' = <<>>
      /\ emitted' = <<>>
      /\ loop' = NoLoop
      /\ UNCHANGED <<busVars, mountVars, resourceVars, selectionVars, cameraVars>>
      /\ Quiet

\* the unsubscribe function subscribe(l) returned, called from outside a
\* delivery; it exists once l has been subscribed
Unsubscribe(l) ==
  LET bus == unsubscribe_listener([listeners |-> busListeners,
                                   unsubscribed |-> unsubscribedListeners,
                                   invoked |-> <<>>], l)
  IN  /\ Position(busListeners, l) # 0 \/ l \in unsubscribedListeners
      /\ busListeners' = bus.listeners
      /\ unsubscribedListeners' = bus.unsubscribed
      /\ delivered' = <<>>
      /\ lastOp' = Op("unsubscribe", l)
      /\ calls' = <<>>
      /\ emitted' = <<>>
      /\ loop' = NoLoop
      /\ UNCHANGED <<busVars, mountVars, resourceVars, selectionVars, cameraVars>>
      /\ Quiet

\* the events callers emit on the bus directly
BusEvents == {DeselectEv, SelectEv("box")}

\* sceneEditorEvents.emit(event)
EmitEvent(event) ==
  /\ lastOp' = Op("emit", event.type)
  /\ calls' = <<>>
  /\ emitted' = <<event>>
  /\ loop' = NoLoop
  /\ UNCHANGED <<busVars, mountVars, resourceVars, selectionVars, cameraVars>>
  /\ Fanout
  /\ Quiet

\* most functions the subscriber that keeps them collects
MaxSubscriptions == 3

\* the listener functions of the subscriber that keeps what subscribe returns;
\* they only observe
KeptListeners == {"le", "lf"}

\* the step is a call on the bus from outside a delivery
BusCall(name, l, bus) ==
  /\ busListeners' = bus.listeners
  /\ unsubscribedListeners' = bus.unsubscribed
  /\ delivered' = <<>>
  /\ lastOp' = Op(name, l)
  /\ calls' = <<>>
  /\ emitted' = <<>>
  /\ loop' = NoLoop
  /\ logged' = <<>>
  /\ shot' = NoShot
  /\ UNCHANGED <<busVars, mountVars, resourceVars, selectionVars, cameraVars,
                 sceneVars, tagVars>>

\* sceneEditorEvents.subscribe(l) by a subscriber that keeps the function it
\* returns
SubscribeKeeping(l) ==
  /\ Len(unsubscribers) < MaxSubscriptions
  /\ unsubscribers' = Append(unsubscribers, [listener |-> l, calls |-> 0])
  /\ BusCall("subscribe", l,
             subscribe([listeners |-> busListeners,
                        unsubscribed |-> unsubscribedListeners,
                        invoked |-> <<>>], l))

\* the subscriber calls the k-th function it was returned:
\* this.listeners.delete(listener), with the listener of that subscribe call
CallUnsubscribe(k) ==
  /\ k <= Len(unsubscribers)
  /\ unsubscribers[k].calls < 2
  /\ unsubscribers' = [unsubscribers EXCEPT ![k].calls = @ + 1]
  /\ BusCall("unsubscribe", unsubscribers[k].listener,
             unsubscribe_listener([listeners |-> busListeners,
                                   unsubscribed |-> unsubscribedListeners,
                                   invoked |-> <<>>],
                                  unsubscribers[k].listener))

\* a read that reports the origin as the target whatever the controller says
readCameraState_originTarget ==
  IF activeCameraRef = Nil THEN NullState
  ELSE [position |-> pose[activeCameraRef].position,
        target |-> <<0, 0, 0>>,
        up |-> pose[activeCameraRef].up]

\* the handle's getCameraState
readCameraState ==
  IF activeCameraRef = Nil THEN NullState
  ELSE [position |-> pose[activeCameraRef].position,
        target |-> IF orbitRef # 0 THEN orbit.target ELSE <<0, 0, 0>>,
        up |-> pose[activeCameraRef].up]

\* a caller reads the camera state and applies it right back:
\* setCameraState(getCameraState()); with no camera the read is null and the
\* write returns on its first test
roundTrip == applyCameraState("roundTrip", readCameraState)

\* the nodes captureFrame hides, in order: helper-tagged scene objects, then
\* the gizmo's node
getAuxiliaryObjects ==
  LET tagged == SelectSeq(SceneObjects, IsHelper)
  IN  [i \in 1..Len(tagged) |-> Object3d(tagged[i])]
        \o (IF transformHelperRef # 0 THEN <<GizmoNode(transformHelperRef)>>
            ELSE <<>>)

\* a capture that remembers the visibility it finds after hiding
previousVisibility_afterHiding(auxiliary, vis) ==
  [i \in 1..Len(auxiliary) |-> FALSE]

\* auxiliary.map((object) => object.visible)
previousVisibility(auxiliary, vis) ==
  [i \in 1..Len(auxiliary) |-> vis[auxiliary[i]]]

\* auxiliary.forEach((object) => { object.visible = false })
Hide(auxiliary, vis) ==
  [n \in DOMAIN vis |->
     IF \E i \in 1..Len(auxiliary) : auxiliary[i] = n THEN FALSE ELSE vis[n]]

\* auxiliary.forEach((object, index) => { object.visible = previous[index] })
RECURSIVE Restore(_, _, _, _)
Restore(auxiliary, previous, vis, i) ==
  IF i > Len(auxiliary) THEN vis
  ELSE Restore(auxiliary, previous,
               [vis EXCEPT ![auxiliary[i]] = previous[i]], i + 1)

\* where render or read-back can throw
Failures == {"none", "render", "toDataURL"}

\* the handle's captureFrame; failure: the step of the capture that throws
captureFrame(failure) ==
  /\ IF rendererRef = 0 \/ activeCameraRef = Nil \/ sceneGraph = Nil
     THEN /\ shot' = [NoShot EXCEPT !.result = "null"]
          /\ visible' = visible
     ELSE LET auxiliary == getAuxiliaryObjects
              previous == previousVisibility(auxiliary, visible)
              hidden == Hide(auxiliary, visible)
              cameraState == readCameraState
          IN  /\ shot' = [result |-> IF failure # "none" THEN "throws"
                                     ELSE IF cameraState = NullState THEN "null"
                                     ELSE "capture",
                          renderer |-> rendererRef,
                          hidden |-> {n \in DOMAIN hidden : ~hidden[n]},
                          state |-> IF failure # "none" THEN NullState ELSE cameraState]
              /\ visible' = Restore(auxiliary, previous, hidden, 1)
  /\ lastOp' = Op("captureFrame", failure)
  /\ calls' = <<>>
  /\ emitted' = <<>>
  /\ loop' = NoLoop
  /\ logged' = <<>>
  /\ UNCHANGED <<busVars, mountVars, resourceVars, selectionVars, cameraVars,
                 sceneGraph, tagVars, unsubscribers>>
  /\ Fanout

(***************************************************************************)
(* The scene graph's tag lookup (sampleScene.ts).                          *)
(***************************************************************************)
\* longest array a caller grows a returned array to
MaxArrayLen == 4

\* tags callers ask for: shared by several objects, carried by one, by one
\* only in some scenes, and by none
LookupTags == {"type:camera", "type:mesh", "camera:flat", "helper:grid",
               "missing"}

\* what callers do to an array they were handed
Mutations == {"push", "pop", "reverse", "clear"}

RECURSIVE Reversed(_)
Reversed(array) ==
  IF array = <<>> THEN <<>> ELSE Append(Reversed(Tail(array)), Head(array))

Mutated(array, mutation) ==
  CASE mutation = "push"    -> Append(array, "box")
    [] mutation = "pop"     -> SubSeq(array, 1, Len(array) - 1)
    [] mutation = "reverse" -> Reversed(array)
    [] OTHER                -> <<>>

\* the step changes nothing of the viewport and emits nothing
LookupOnly(name, tag) ==
  /\ lastOp' = Op(name, tag)
  /\ calls' = <<>>
  /\ emitted' = <<>>
  /\ loop' = NoLoop
  /\ logged' = <<>>
  /\ shot' = NoShot
  /\ UNCHANGED <<busVars, mountVars, resourceVars, selectionVars, cameraVars,
                 sceneVars, unsubscribers>>
  /\ Fanout

\* a caller calls sceneGraph.getByTag(tag) and keeps the array
GetByTag(tag) ==
  /\ sceneGraph # Nil
  /\ LET returned == Spread(IndexedOrEmpty(tag))
     IN  held' = [tag |-> tag, elements |-> returned.elements,
                  fresh |-> returned.fresh]
  /\ UNCHANGED <<tagIndex, firstReturned, touched>>
  /\ LookupOnly("getByTag", tag)

\* a caller calls sceneGraph.getFirstByTag(tag)
GetFirstByTag(tag) ==
  /\ sceneGraph # Nil
  /\ firstReturned' = getFirstByTag(tag)
  /\ UNCHANGED <<tagIndex, held, touched>>
  /\ LookupOnly("getFirstByTag", tag)

\* the caller changes the array it was handed; an array that is the index's
\* own changes inside the index too
MutateReturned(mutation) ==
  /\ held.tag # Nil
  /\ mutation = "push" => Len(held.elements) < MaxArrayLen
  /\ Mutated(held.elements, mutation) # held.elements
  /\ held' = [held EXCEPT !.elements = Mutated(held.elements, mutation)]
  /\ tagIndex' = IF ~held.fresh /\ Has(tagIndex, held.tag)
                 THEN [tagIndex EXCEPT
                         ![held.tag] = Mutated(held.elements, mutation)]
                 ELSE tagIndex
  /\ touched' = held.tag
  /\ UNCHANGED firstReturned
  /\ LookupOnly("mutate", mutation)

(***************************************************************************)
(* The whole system.                                                       *)
(***************************************************************************)
Next ==
  \/ \E h \in Handlers : Register(h)
  \/ \E h \in Handlers : Unregister(h)
  \/ \E tag \in CameraTags : CmdSetCameraByTag(tag)
  \/ \E mode \in Modes : CmdSetTransformMode(mode)
  \/ \E preset \in PresetNames : CmdMoveCameraToPreset(preset)
  \/ \E id \in SelectIds : CmdSelectObject(id)
  \/ \E tag \in SelectTags : CmdSelectObjectByTag(tag)
  \/ CmdClearSelection
  \/ \E tag \in DefaultCameraTags : Mount(tag)
  \/ \E m \in Mounts : LoadCancelled(m)
  \/ \E m \in Mounts : LoadCtorFailure(m)
  \/ \E m \in Mounts, helperOk \in BOOLEAN : LoadSuccess(m, helperOk)
  \/ \E m \in Mounts : animate(m)
  \/ Teardown
  \/ \E m \in Mounts, hit \in HitNodes \cup {Nil} : onPointerDown(m, hit)
  \/ \E sz \in Sizes : handleResize(sz)
  \/ \E m \in Mounts : onMouseDown(m)
  \/ \E m \in Mounts : onObjectChange(m)
  \/ \E m \in Mounts : onMouseUp(m)
  \/ \E state \in CameraStates : setCameraState(state)
  \/ \E scene \in Scenes : SetScene(scene)
  \/ \E m \in Mounts : LoadNoCamera(m)
  \/ TeardownNoScene
  \/ \E node \in AuxNodes, v \in BOOLEAN : setVisible(node, v)
  \/ \E failure \in Failures : captureFrame(failure)
  \/ roundTrip
  \/ \E l \in Listeners : Subscribe(l)
  \/ \E l \in Listeners : Unsubscribe(l)
  \/ \E event \in BusEvents : EmitEvent(event)
  \/ \E m \in Mounts, failure \in FrameFailures : animateFrame(m, failure)
  \/ \E tag \in LookupTags : GetByTag(tag)
  \/ \E tag \in LookupTags : GetFirstByTag(tag)
  \/ \E mutation \in Mutations : MutateReturned(mutation)
  \/ \E l \in KeptListeners : SubscribeKeeping(l)
  \/ \E k \in 1..MaxSubscriptions : CallUnsubscribe(k)

Spec == Init /\ [][Next]_vars


(***************************************************************************)
(* The command bus with the viewport behind it: arbitrary register and     *)
(* unregister calls, every bus method, and the first initialization of the *)
(* viewport so that dispatched commands have effects.                      *)
(***************************************************************************)
BusMethods == {"setCameraByTag", "setTransformMode", "moveCameraToPreset",
               "selectObject", "selectObjectByTag", "clearSelection"}

BusNext ==
  \/ \E h \in Handlers : Register(h)
  \/ \E h \in Handlers : Unregister(h)
  \/ \E tag \in {"camera:orthographic"} : CmdSetCameraByTag(tag)
  \/ \E mode \in {"rotate"} : CmdSetTransformMode(mode)
  \/ \E preset \in {"top"} : CmdMoveCameraToPreset(preset)
  \/ \E id \in {"box"} : CmdSelectObject(id)
  \/ \E tag \in {"type:mesh"} : CmdSelectObjectByTag(tag)
  \/ CmdClearSelection
  \/ \E tag \in {""} : Mount(tag)
  \/ \E m \in Mounts : LoadSuccess(m, TRUE)

SpecBus == Init /\ [][BusNext]_vars

\* C1: after any sequence of register/unregister calls the slot holds the
\* most recently registered handler, unless unregister was called with that
\* very handler after it was registered, and then the slot is empty; a stale
\* unregister(A) after register(B) leaves B in the slot, and every command
\* dispatched goes to the handler in the slot.
C1_SingleSlot ==
  /\ handler = IF lastRegistered # Nil /\ ~unregistered THEN lastRegistered ELSE Nil
  /\ \A i \in 1..Len(calls) :
       calls[i].handler = lastRegistered /\ ~unregistered

\* a stale unregister(hA) has just run while hB, registered later, is in
\* the slot
C1_Witness ==
  /\ lastOp = Op("unregister", "hA")
  /\ lastRegistered = "hB"
  /\ handler = "hB"

\* C5: with no handler registered, each bus method invokes no handler
\* method, emits nothing and changes neither the bus nor the viewport.
C5_NoHandlerNoop ==
  [][(handler = Nil /\ lastOp'.op \in BusMethods) =>
       /\ calls' = <<>>
       /\ emitted' = <<>>
       /\ UNCHANGED <<busVars, mountVars, resourceVars, selectionVars, cameraVars>>
    ]_vars

\* a command was issued on an initialized viewport after the handler that
\* had been registered was unregistered
C5_Witness ==
  /\ handler = Nil
  /\ lastRegistered # Nil
  /\ phase[1] = "running"
  /\ lastOp.op = "selectObject"
  /\ calls = <<>>


(***************************************************************************)
(* The init effect against its cleanup: mounts, the three outcomes of the  *)
(* module load, the render loop, teardown, and the inputs that can arrive  *)
(* in between.                                                             *)
(***************************************************************************)
LoopNext ==
  \/ \E tag \in DefaultCameraTags : Mount(tag)
  \/ \E m \in Mounts : LoadCancelled(m)
  \/ \E m \in Mounts : LoadCtorFailure(m)
  \/ \E m \in Mounts, helperOk \in BOOLEAN : LoadSuccess(m, helperOk)
  \/ \E m \in Mounts : animate(m)
  \/ Teardown
  \/ \E h \in {"hA"} : Register(h)
  \/ \E tag \in {"camera:orthographic"} : CmdSetCameraByTag(tag)

SpecLoop == Init /\ [][LoopNext]_vars

\* C3: once a mount is torn down its render loop is dead: a frame callback
\* that was queued runs without updating the navigation controller, without
\* rendering and without scheduling another frame, and no step of the system
\* renders for that mount or queues a frame for it again.
C3_TeardownCancelsLoop ==
  [][\A m \in Mounts :
       cancelled[m] =>
         /\ cancelled'[m]
         /\ frameQueued'[m] => frameQueued[m]
         /\ loop'.mount = m =>
              ~loop'.updated /\ ~loop'.rendered /\ ~loop'.scheduled
    ]_vars

\* the frame callback that was queued when mount 1 was torn down has run
C3_Witness ==
  /\ lastOp.op = "animate"
  /\ loop.mount = 1
  /\ cancelled[1]
  /\ phase[1] = "running"
  /\ ~frameQueued[1]

\* C4: when a mount is torn down before its module load resolves, the
\* continuation of the load does nothing: no renderer, no controller, no
\* listener, no write to a shared ref, no render loop.
C4_CancelledLoadDoesNothing ==
  [][\A m \in Mounts :
       (cancelled[m] /\ phase[m] = "loading") =>
         /\ phase'[m] \in {"loading", "cancelled"}
         /\ phase'[m] = "cancelled" =>
              /\ UNCHANGED <<busVars, cur, live, cancelled, frameQueued, listeners,
                             resourceVars, selectionVars, cameraVars>>
              /\ emitted' = <<>>
              /\ loop' = NoLoop
         /\ ~renderers'[m].made /\ ~transforms'[m].made
         /\ ~listeners'[m] /\ ~frameQueued'[m]
         /\ rendererRef' # m /\ transformRef' # m
    ]_vars

\* mount 1 was torn down while loading, its load has resolved since, and a
\* later mount is running
C4_Witness ==
  /\ phase[1] = "cancelled"
  /\ cur = 2
  /\ phase[2] = "running"


(***************************************************************************)
(* Gizmo manipulation against navigation: the manipulation events of the   *)
(* gizmo interleaved with the commands and events that touch the           *)
(* navigation controller.                                                  *)
(***************************************************************************)
ManipNext ==
  \/ \E tag \in {""} : cur < FocusMounts /\ Mount(tag)
  \/ \E m \in Mounts : LoadSuccess(m, TRUE)
  \/ Teardown
  \/ \E tag \in {"camera:orthographic"} : CmdSetCameraByTag(tag)
  \/ \E preset \in {"top"} : CmdMoveCameraToPreset(preset)
  \/ \E id \in {"box"} : CmdSelectObject(id)
  \/ \E sz \in Sizes : handleResize(sz)
  \/ \E state \in {FrontState} : setCameraState(state)
  \/ \E m \in Mounts : onMouseDown(m)
  \/ \E m \in Mounts : onObjectChange(m)
  \/ \E m \in Mounts : onMouseUp(m)

SpecManip == InitMounted /\ [][ManipNext]_vars

\* a manipulation is in progress: mouseDown was delivered, mouseUp not yet
Manipulating == \E m \in Mounts : transforms[m].dragging

\* C2: whenever a navigation controller is present (constructed and not
\* disposed), its enabled flag is false during a gizmo manipulation and true
\* outside one.
C2_MutualExclusion ==
  (orbitRef # 0 /\ orbits[orbitRef] = 0) => (orbit.enabled <=> ~Manipulating)

(***************************************************************************)
(* Selection: picking and the selection commands, before and after the     *)
(* viewport is initialized, with and without a usable gizmo node.          *)
(***************************************************************************)
SelectNext ==
  \/ \E tag \in {""} : cur < FocusMounts /\ Mount(tag)
  \/ \E m \in Mounts, helperOk \in BOOLEAN : LoadSuccess(m, helperOk)
  \/ Teardown
  \/ \E tag \in {"camera:orthographic"} : CmdSetCameraByTag(tag)
  \/ \E mode \in {"rotate"} : CmdSetTransformMode(mode)
  \/ \E preset \in {"top"} : CmdMoveCameraToPreset(preset)
  \/ \E id \in SelectIds : CmdSelectObject(id)
  \/ \E tag \in SelectTags : CmdSelectObjectByTag(tag)
  \/ CmdClearSelection
  \/ \E m \in Mounts, hit \in HitNodes \cup {Nil} : onPointerDown(m, hit)

SpecSelect == InitMounted /\ [][SelectNext]_vars

\* the latest mount completed its initialization and is not torn down
Initialized == cur # 0 /\ live /\ phase[cur] = "running"

\* no mount has completed its initialization yet
NeverInitialized == \A m \in Mounts : phase[m] \in {"unused", "loading"}

\* the current gizmo is attached to node
AttachedTo(node) == transformRef # 0 /\ transforms[transformRef].object = node

\* C6: a command dispatched to the registered handler before the viewport's
\* initialization has completed changes nothing in the viewport and emits
\* no event.
C6_NotReadyNoop ==
  [][(NeverInitialized /\ handler # Nil /\ lastOp'.op \in BusMethods) =>
       /\ emitted' = <<>>
       /\ UNCHANGED <<resourceVars, selectionVars, cameraVars>>
    ]_vars

\* C7: a pointer-down on an initialized viewport whose nearest intersection
\* resolves to a scene object selects it, attaches the gizmo to its node and
\* emits exactly one select event with it; a pointer-down that hits nothing
\* clears the selection, detaches the gizmo and emits exactly one deselect.
C7_PickOutcome ==
  (Initialized /\ lastOp.op = "pointerdown") =>
    IF lastOp.arg = Nil
    THEN /\ selectedId = Nil
         /\ selectedRef = Nil
         /\ transformRef # 0 => transforms[transformRef].object = Nil
         /\ emitted = <<DeselectEv>>
    ELSE Resolve(lastOp.arg) # Nil =>
           /\ selectedId = Resolve(lastOp.arg)
           /\ AttachedTo(Object3d(Resolve(lastOp.arg)))
           /\ emitted = <<SelectEv(Resolve(lastOp.arg))>>

\* C8: on an initialized viewport selectObject(id) of a selectable object
\* sets the selection to id, attaches the gizmo to its node and emits select
\* with it; clearSelection() then sets the selection to null, detaches the
\* gizmo and emits deselect.
C8_SelectThenClear ==
  (Initialized /\ calls # <<>>) =>
    /\ (lastOp.op = "selectObject" /\ \E i \in 1..Len(objects) : objects[i] = lastOp.arg) =>
         /\ selectedId = lastOp.arg
         /\ AttachedTo(Object3d(lastOp.arg))
         /\ emitted = <<SelectEv(lastOp.arg)>>
    /\ lastOp.op = "clearSelection" =>
         /\ selectedId = Nil
         /\ transformRef # 0 => transforms[transformRef].object = Nil
         /\ emitted = <<DeselectEv>>

\* C9: selectObject(id) with an id of no selectable object, and
\* selectObjectByTag(tag) with a tag of no object, leave the selection id,
\* the recorded selected object and the gizmo attachment unchanged and emit
\* nothing.
C9_SelectOnlyWhenFound ==
  [][/\ (handler # Nil /\ lastOp'.op = "selectObject"
           /\ ~\E i \in 1..Len(objects) : objects[i] = lastOp'.arg) =>
          (emitted' = <<>> /\ UNCHANGED <<selectedId, selectedRef, transforms>>)
     /\ (handler # Nil /\ lastOp'.op = "selectObjectByTag"
           /\ getByTag(lastOp'.arg) = <<>>) =>
          (emitted' = <<>> /\ UNCHANGED <<selectedId, selectedRef, transforms>>)
    ]_vars

(***************************************************************************)
(* Camera projection: everything that calls configureCameraForViewport or  *)
(* changes the size of the hosting region or the active camera.            *)
(***************************************************************************)
CameraNext ==
  \/ \E tag \in {"camera:flat"} : cur < FocusMounts /\ Mount(tag)
  \/ \E m \in Mounts : LoadSuccess(m, TRUE)
  \/ Teardown
  \/ \E tag \in CameraTags \ {"type:mesh"} : CmdSetCameraByTag(tag)
  \/ \E sz \in Sizes : handleResize(sz)
  \/ \E state \in {FrontState} : setCameraState(state)

SpecCamera == InitMounted /\ [][CameraNext]_vars

\* width / height of a size
Ratio(sz) == Rat(sz[1], sz[2])

\* the frustum height an orthographic camera of the scene starts with
InitialSpan(c) ==
  LET span == RAbs(RSub(InitProj(c).top, InitProj(c).bottom))
  IN  IF RIsZero(span) THEN RInt(DefaultFrustumHeight) ELSE span

CaptureNext ==
  \/ \E scene \in Scenes : SetScene(scene)
  \/ \E tag \in {""} : Mount(tag)
  \/ \E m \in Mounts : LoadCtorFailure(m)
  \/ \E m \in Mounts : LoadNoCamera(m)
  \/ \E m \in Mounts, helperOk \in BOOLEAN : LoadSuccess(m, helperOk)
  \/ Teardown
  \/ TeardownNoScene
  \/ \E node \in {"grid", GizmoNode(1)}, v \in BOOLEAN : setVisible(node, v)
  \/ \E failure \in Failures : captureFrame(failure)

SpecCapture == Init /\ [][CaptureNext]_vars

\* the nodes a capture must not show: helper-tagged objects of the scene and
\* every gizmo node parented to the scene
MustHide ==
  {Object3d(o) : o \in {x \in HelperTagged : Position(SceneObjects, x) # 0}}
    \cup {GizmoNode(m) : m \in {k \in Mounts : transforms[k].inScene}}

\* C11: after captureFrame every helper node's visibility is what it was
\* before the call, whether the call returned a capture, returned null or
\* threw in render or read-back; and when the capture render is issued every
\* helper-tagged node of the scene and the gizmo's node are hidden.
C11_CaptureRestoresVisibility ==
  [][lastOp'.op = "captureFrame" =>
       /\ visible' = visible
       /\ shot'.renderer # 0 => MustHide \subseteq shot'.hidden
    ]_vars

\* a capture threw in render with the grid hidden by the host and the gizmo's
\* node shown; both were hidden for the render and are back as they were
C11_Witness ==
  /\ lastOp = Op("captureFrame", "render")
  /\ shot.result = "throws"
  /\ shot.hidden = {"grid", GizmoNode(1)}
  /\ ~visible["grid"]
  /\ visible[GizmoNode(1)]
  /\ transforms[1].inScene

\* the render surface, the active camera or the scene is unavailable: no
\* renderer or a disposed one, no camera, no scene, or the latest run of the
\* init effect has not completed initialization
Unavailable ==
  \/ rendererRef = 0
  \/ rendererRef # 0 /\ renderers[rendererRef].disposed > 0
  \/ activeCameraRef = Nil
  \/ sceneGraph = Nil
  \/ cur = 0
  \/ cur # 0 /\ phase[cur] # "running"

\* C12: captureFrame returns null whenever the render surface, the active
\* camera or the scene is unavailable, and then issues no render and changes
\* no node's visibility.
C12_CaptureNullWhenUnavailable ==
  [][(lastOp'.op = "captureFrame" /\ Unavailable) =>
       /\ shot'.result = "null"
       /\ shot'.renderer = 0
       /\ visible' = visible
    ]_vars

(***************************************************************************)
(* The camera's pose and the controllers bound to it: presets, camera      *)
(* switches, camera states written and read back.                          *)
(***************************************************************************)
ViewNext ==
  \/ \E tag \in {""} : cur < FocusMounts /\ Mount(tag)
  \/ \E m \in Mounts, helperOk \in BOOLEAN : LoadSuccess(m, helperOk)
  \/ Teardown
  \/ \E tag \in {"camera:orthographic", "type:mesh"} : CmdSetCameraByTag(tag)
  \/ \E preset \in PresetNames : CmdMoveCameraToPreset(preset)
  \/ \E state \in CameraStates : setCameraState(state)
  \/ roundTrip

SpecView == InitMounted /\ [][ViewNext]_vars

C14_Preset ==
  [][(lastOp'.op = "moveCameraToPreset" /\ calls' # <<>> /\ Initialized) =>
       /\ lastOp'.arg = "home"  => pose'[activeCameraRef].position = <<6, 4, 6>>
       /\ lastOp'.arg = "front" => pose'[activeCameraRef].position = <<0, 0, 10>>
       /\ lastOp'.arg = "side"  => pose'[activeCameraRef].position = <<10, 0, 0>>
       /\ lastOp'.arg = "top"   => pose'[activeCameraRef].position = <<0, 10, 0>>
       /\ orbit'.target = <<0, 1, 0>>
       /\ pose'[activeCameraRef].lookAt = <<0, 1, 0>>
       /\ activeCameraRef' = activeCameraRef
    ]_vars

\* the top preset was applied to the orthographic camera, which had been put
\* elsewhere by setCameraState
C14_Witness ==
  /\ lastOp = Op("moveCameraToPreset", "top")
  /\ Initialized
  /\ calls # <<>>
  /\ activeCameraRef = "camO"
  /\ pose["camO"].position = <<0, 10, 0>>
  /\ pose["camO"].up = <<0, 0, 1>>
  /\ orbit.target = <<0, 1, 0>>

\* the camera a switch-camera tag resolves to, Nil when it resolves to none
TaggedCamera(tag) ==
  IF getFirstByTag(tag) # Nil /\ isCameraObject(Object3d(getFirstByTag(tag)))
  THEN Object3d(getFirstByTag(tag)) ELSE Nil

C16_CtorFailureAborts ==
  [][/\ lastOp'.op = "loadCtorFailure" =>
          /\ logged' = <<"Failed to load three.js control constructors">>
          /\ orbits' = orbits
          /\ orbitRef' = orbitRef
          /\ transforms' = transforms
          /\ listeners' = listeners
          /\ frameQueued' = frameQueued
          /\ renderers' = renderers
     /\ \A m \in Mounts :
          phase'[m] = "failed" =>
            /\ ~listeners'[m]
            /\ ~frameQueued'[m]
            /\ ~transforms'[m].made
            /\ loop'.mount # m
    ]_vars

\* the first mount failed on its constructors and is still up
C16_Witness ==
  /\ lastOp.op = "loadCtorFailure"
  /\ cur = 1
  /\ live
  /\ phase[1] = "failed"
  /\ logged = <<"Failed to load three.js control constructors">>
  /\ orbits = <<>>

\* C17: when the scene offers no camera the continuation logs an error and
\* returns without constructing a controller or registering a listener;
\* while that mount is up no render is issued on its render surface; its
\* teardown disposes and detaches the render surface.
C17_NoCameraAborts ==
  [][/\ lastOp'.op = "loadNoCamera" =>
          /\ logged' = <<"SceneEditorCanvas: no camera available in the provided scene">>
          /\ orbits' = orbits
          /\ transforms' = transforms
          /\ listeners' = listeners
          /\ frameQueued' = frameQueued
     /\ \A m \in Mounts :
          phase'[m] = "nocamera" =>
            /\ ~listeners'[m]
            /\ ~frameQueued'[m]
            /\ ~transforms'[m].made
            /\ loop'.mount # m
            /\ shot'.renderer # m
     /\ (lastOp'.op = "teardown" /\ phase[cur] = "nocamera") =>
          /\ renderers'[cur].disposed >= 1
          /\ ~renderers'[cur].attached
    ]_vars

\* C18: the teardown of a mount whose initialization completed leaves its
\* listeners unregistered, its current navigation controller, its gizmo
\* controller and its render surface disposed, the render surface detached
\* from the hosting region and the gizmo's node out of the scene.
C18_TeardownReleases ==
  [][(lastOp'.op = "teardown" /\ phase[cur] = "running") =>
       /\ ~listeners'[cur]
       /\ orbitRef # 0
       /\ orbits'[orbitRef] >= 1
       /\ transforms'[cur].made
       /\ transforms'[cur].disposed >= 1
       /\ renderers'[cur].disposed >= 1
       /\ ~renderers'[cur].attached
       /\ ~transforms'[cur].inScene
    ]_vars

(***************************************************************************)
(* The event bus on its own: listeners come and go, between deliveries and *)
(* during them, and events are emitted.                                    *)
(***************************************************************************)
EventsNext ==
  \/ \E l \in Listeners : Subscribe(l)
  \/ \E l \in Listeners : Unsubscribe(l)
  \/ \E event \in BusEvents : EmitEvent(event)

SpecEvents == Init /\ [][EventsNext]_vars

\* the listeners invoked in the last step, in order of invocation
Invocations == [i \in 1..Len(delivered) |-> delivered[i].listener]

\* the set of listeners invoked in the last step
Receivers == {delivered[i].listener : i \in 1..Len(delivered)}

\* C19: emit(event) invokes every listener subscribed when it is called
\* exactly once, with that event, in the order of subscription, before it
\* returns: the invocations of the step, restricted to the listeners that
\* were subscribed, are the subscription list.
C19_FanOutInOrder ==
  [][lastOp'.op = "emit" =>
       LET subscribed(l) == Position(busListeners, l) # 0
       IN  /\ SelectSeq(Invocations', subscribed) = busListeners
           /\ \A i \in 1..Len(delivered') : delivered'[i].event = emitted'[1]
    ]_vars

\* C20: an event reaches exactly the listeners subscribed at the moment of
\* emit: none that was subscribed during the delivery, none whose
\* unsubscribe function had been called before the emit.
C20_NoReplay ==
  [][lastOp'.op = "emit" =>
       /\ Receivers' = {busListeners[i] : i \in 1..Len(busListeners)}
       /\ Receivers' \cap unsubscribedListeners = {}
    ]_vars

\* the latest mount completed its initialization without adding a gizmo node
\* to the scene
Degraded == Initialized /\ transformHelperRef # cur

\* C21: on a viewport that initialized without a gizmo node, a pointer-down
\* whose hit resolves to a selectable object, and a selectObject of a
\* selectable object, set the selection to that object and emit one select
\* event with it.
C21_DegradedSelection ==
  Degraded =>
    /\ (lastOp.op = "pointerdown" /\ lastOp.arg # Nil /\ Resolve(lastOp.arg) # Nil) =>
         /\ selectedId = Resolve(lastOp.arg)
         /\ emitted = <<SelectEv(Resolve(lastOp.arg))>>
    /\ (lastOp.op = "selectObject" /\ calls # <<>>
          /\ \E i \in 1..Len(objects) : objects[i] = lastOp.arg) =>
         /\ selectedId = lastOp.arg
         /\ emitted = <<SelectEv(lastOp.arg)>>

(***************************************************************************)
(* The manipulation mode: mode commands before and after initialization,   *)
(* selections, and the gizmo's manipulation events.                        *)
(***************************************************************************)
ModeNext ==
  \/ \E tag \in {""} : cur < FocusMounts /\ Mount(tag)
  \/ \E m \in Mounts : LoadSuccess(m, TRUE)
  \/ Teardown
  \/ \E mode \in Modes : CmdSetTransformMode(mode)
  \/ \E id \in {"box"} : CmdSelectObject(id)
  \/ \E m \in Mounts : onMouseDown(m)
  \/ \E m \in Mounts : onObjectChange(m)
  \/ \E m \in Mounts : onMouseUp(m)

SpecMode == InitMounted /\ [][ModeNext]_vars

\* the manipulation events
TransformEvents == {"transform-start", "transform-change", "transform-end"}

\* C22: on an initialized viewport a dispatched setTransformMode(m) leaves
\* the mount's gizmo controller in mode m, and a manipulation event emitted
\* by the step right after it carries mode m and the selected object.
C22_ModeForwarded ==
  [][/\ (Initialized /\ lastOp'.op = "setTransformMode" /\ calls' # <<>>) =>
          /\ transforms'[cur].mode = lastOp'.arg
     /\ (Initialized /\ lastOp.op = "setTransformMode" /\ calls # <<>>
           /\ emitted' # <<>> /\ emitted'[1].type \in TransformEvents) =>
          /\ emitted'[1].mode = lastOp.arg
          /\ emitted'[1].object = selectedId
    ]_vars

\* C23: on an initialized viewport the active camera's projection matches
\* the current size of the hosting region: a perspective camera has aspect
\* width / height, an orthographic camera has right = -left = half of its
\* remembered height times width / height.
C23_ProjectionTracksViewport ==
  (Initialized /\ activeCameraRef # Nil) =>
    LET c == activeCameraRef IN
    /\ isPerspectiveCamera(c) => proj[c].aspect = Ratio(viewport)
    /\ isOrthographicCamera(c) =>
         /\ orthoFrustumHeights[c] # Nil
         /\ proj[c].right =
              RMul(RDiv(orthoFrustumHeights[c], RInt(2)), Ratio(viewport))
         /\ proj[c].left = RNeg(proj[c].right)

\* after a resize to 1600x600 under the perspective camera (aspect 8/3) the
\* viewport switched to the orthographic camera: right 64/3
C23_Witness ==
  /\ Initialized
  /\ lastOp = Op("setCameraByTag", "camera:orthographic")
  /\ viewport = <<1600, 600>>
  /\ activeCameraRef = "camO"
  /\ proj["camP"].aspect = Rat(8, 3)
  /\ orthoFrustumHeights["camO"] # Nil
  /\ proj["camO"].right = Rat(64, 3)
  /\ proj["camO"].left = Rat(-64, 3)

\* C24: a switch-camera command whose tag resolves to no object, or to an
\* object that is no camera, leaves the active camera, the navigation
\* controllers (none disposed, none constructed, the current one the same,
\* with its target and enabled flag) and the gizmo controllers unchanged.
C24_UnresolvedSwitchNoop ==
  [][(lastOp'.op = "setCameraByTag" /\ TaggedCamera(lastOp'.arg) = Nil) =>
       UNCHANGED <<activeCameraRef, orbits, orbitRef, orbit, transforms>>
    ]_vars

FramesNext ==
  \/ \E tag \in DefaultCameraTags : Mount(tag)
  \/ \E m \in Mounts, helperOk \in BOOLEAN : LoadSuccess(m, helperOk)
  \/ \E m \in Mounts, failure \in FrameFailures : animateFrame(m, failure)
  \/ Teardown
  \/ \E h \in {"hA"} : Register(h)
  \/ \E tag \in {"camera:orthographic"} : CmdSetCameraByTag(tag)

SpecFrames == Init /\ [][FramesNext]_vars

\* C26: a frame step of a mount that is not cancelled, whose update or
\* render throws, has scheduled the next frame step all the same: the
\* callback is queued when the step ends, so the next step can run.
C26_FailedFrameKeepsLoop ==
  [][\A m \in Mounts :
       (lastOp'.op = "animate" /\ loop'.mount = m /\ loop'.threw /\ ~cancelled[m]) =>
         /\ loop'.scheduled
         /\ frameQueued'[m]
    ]_vars

\* a frame step of the running mount threw in render and the next one is
\* queued
C26_Witness ==
  /\ lastOp.op = "animate"
  /\ loop.mount = cur
  /\ loop.threw
  /\ loop.updated
  /\ ~loop.rendered
  /\ live
  /\ frameQueued[cur]

\* C27: whenever a frame step of a mount does its work (the first one, run
\* at the end of initialization, or a later one) the mount's render surface
\* is attached and not disposed, an active camera is chosen and configured
\* for the region's size, a navigation controller bound to it is current and
\* not disposed, the mount's gizmo controller is constructed and not
\* disposed, and the mount's pointer-down and resize listeners are
\* registered.
C27_InitBeforeFirstFrame ==
  [][\A m \in Mounts :
       (loop'.mount = m /\ (loop'.updated \/ loop'.rendered \/ loop'.threw)) =>
         /\ rendererRef' = m
         /\ renderers'[m].made
         /\ renderers'[m].attached
         /\ renderers'[m].disposed = 0
         /\ activeCameraRef' # Nil
         /\ isPerspectiveCamera(activeCameraRef') =>
              proj'[activeCameraRef'].aspect = Ratio(viewport')
         /\ isOrthographicCamera(activeCameraRef') =>
              orthoFrustumHeights'[activeCameraRef'] # Nil
         /\ orbitRef' # 0
         /\ orbits'[orbitRef'] = 0
         /\ orbit'.camera = activeCameraRef'
         /\ transforms'[m].made
         /\ transforms'[m].disposed = 0
         /\ listeners'[m]
    ]_vars

\* a later frame of the first mount rendered, after a switch to the
\* orthographic camera replaced the navigation controller
C27_Witness ==
  /\ lastOp.op = "animate"
  /\ loop.mount = 1
  /\ loop.rendered
  /\ loop.updated
  /\ activeCameraRef = "camO"
  /\ orbits = <<1, 0>>
  /\ orbitRef = 2
  /\ listeners[1]

(***************************************************************************)
(* Progress of the render loop. The module load of a mount resolves, and   *)
(* the host runs a frame callback that is queued: both are weakly fair.    *)
(* Every mount still to come, and the current one while it loads, keeps a  *)
(* navigation controller in reserve out of MaxOrbits.                      *)
(***************************************************************************)
OrbitsToSpare ==
  Len(orbits) + (MaxMounts - cur)
    + (IF cur # 0 /\ phase[cur] = "loading" /\ ~cancelled[cur] THEN 1 ELSE 0)
    < MaxOrbits

LiveNext ==
  \/ \E tag \in DefaultCameraTags : Mount(tag)
  \/ \E m \in Mounts : LoadCancelled(m)
  \/ \E m \in Mounts, helperOk \in BOOLEAN : LoadSuccess(m, helperOk)
  \/ \E m \in Mounts : animate(m)
  \/ Teardown
  \/ \E h \in {"hA"} : Register(h)
  \/ \E tag \in {"camera:orthographic"} : OrbitsToSpare /\ CmdSetCameraByTag(tag)

\* the module load of mount m resolves and its continuation runs to the end
\* (the step of LiveNext that takes the mount from loading to running is
\* LoadSuccess)
LoadResolves(m) ==
  /\ phase[m] = "loading"
  /\ ~SeesCancelled(m)
  /\ Len(orbits) < MaxOrbits
  /\ phase' = [phase EXCEPT ![m] = "running"]

SpecLive ==
  /\ Init
  /\ [][LiveNext]_vars
  /\ \A m \in Mounts : WF_phase(LoadResolves(m)) /\ WF_vars(animate(m))

\* the last step was a frame step of mount m that rendered
RenderedFrame(m) == loop.mount = m /\ loop.rendered

\* C28: a mount whose load is pending either is torn down or starts its
\* render loop; a mount whose loop has started either is torn down or
\* renders a frame again and again; and a mount that has made its attempt
\* at initialization never makes another.
C28_LoopLiveness ==
  /\ \A m \in Mounts :
       [](phase[m] = "loading" => <>(cancelled[m] \/ phase[m] = "running"))
  /\ \A m \in Mounts :
       []<>(phase[m] # "running" \/ cancelled[m] \/ RenderedFrame(m))
  /\ [][\A m \in Mounts :
          phase[m] \notin {"unused", "loading"} => phase'[m] = phase[m]]_vars

\* the second mount runs and a frame of it, later than the first, has
\* rendered; the first mount was torn down while its load was pending
C28_Witness ==
  /\ lastOp.op = "animate"
  /\ RenderedFrame(2)
  /\ phase[2] = "running"
  /\ ~cancelled[2]
  /\ phase[1] = "cancelled"

(***************************************************************************)
(* The camera a mount starts with, over scenes whose object lists begin    *)
(* with or without a camera and default-camera tags that resolve to a      *)
(* camera, to another object or to nothing.                                *)
(***************************************************************************)
ChoiceTags == {"", "camera:orthographic", "camera:flat", "type:mesh", "missing"}

ChoiceNext ==
  \/ \E scene \in {"sample", "late"} : SetScene(scene)
  \/ \E tag \in ChoiceTags : Mount(tag)
  \/ \E m \in Mounts, helperOk \in BOOLEAN : LoadSuccess(m, helperOk)
  \/ Teardown

SpecChoice == Init /\ [][ChoiceNext]_vars

\* C29: a successful initialization leaves as the active camera the node of
\* the first object of the list that carries the default-camera tag, if a
\* tag was supplied and that node is a camera, and otherwise the node of
\* the first object of the list that is a camera.
C29_InitialCamera ==
  [][lastOp'.op = "loadSuccess" =>
       LET tagged == {i \in 1..Len(SceneObjects) :
                        HasTag(SceneObjects[i], defaultCameraTag)}
           capable == {i \in 1..Len(SceneObjects) :
                         isCameraObject(Object3d(SceneObjects[i]))}
           first(S) == CHOOSE i \in S : \A j \in S : i <= j
       IN  IF defaultCameraTag # "" /\ tagged # {} /\ first(tagged) \in capable
           THEN activeCameraRef' = Object3d(SceneObjects[first(tagged)])
           ELSE /\ capable # {}
                /\ activeCameraRef' = Object3d(SceneObjects[first(capable)])
    ]_vars

\* the second mount, on the scene whose cameras come late, was given a tag
\* whose first object is a mesh and fell back to the first camera of the
\* list; the first mount had taken the tagged orthographic camera
C29_Witness ==
  /\ lastOp.op = "loadSuccess"
  /\ cur = 2
  /\ sceneGraph = "late"
  /\ defaultCameraTag = "type:mesh"
  /\ activeCameraRef = "camZ"
  /\ orbit.camera = "camZ"
  /\ transforms[1].camera = "camO"

(***************************************************************************)
(* The tag lookup: specification and property.                             *)
(***************************************************************************)
TagScenes == {"sample", "nocam", "late"}

TagsNext ==
  \/ \E scene \in TagScenes : SetScene(scene)
  \/ \E tag \in LookupTags : GetByTag(tag)
  \/ \E tag \in LookupTags : GetFirstByTag(tag)
  \/ \E mutation \in Mutations : MutateReturned(mutation)

SpecTags == Init /\ [][TagsNext]_vars

\* every tag an object of the model carries, and one none carries
AllTags ==
  UNION {{Tags(o)[i] : i \in 1..Len(Tags(o))} : o \in ObjectSet} \cup {"missing"}

\* the scene's objects whose tags contain the tag, in list order
Tagged(tag) == LET T(o) == HasTag(o, tag) IN SelectSeq(SceneObjects, T)

\* how many times the object occurs in the array
Occurrences(array, o) == Cardinality({i \in 1..Len(array) : array[i] = o})

\* C30: for every tag, getByTag gives exactly the scene's objects whose tags
\* contain it, each once and in list order (none for a tag nothing carries),
\* getFirstByTag gives the first of them or nothing, and this stays so after
\* a caller has changed an array getByTag handed out.
C30_TagLookup ==
  /\ \A t \in AllTags :
       /\ getByTag(t) = Tagged(t)
       /\ \A o \in ObjectSet :
            Occurrences(getByTag(t), o)
              = IF HasTag(o, t) /\ Occurrences(SceneObjects, o) = 1
                THEN 1 ELSE 0
       /\ getFirstByTag(t) = IF Tagged(t) = <<>> THEN Nil ELSE Tagged(t)[1]
  /\ lastOp.op = "getByTag" => held.elements = Tagged(lastOp.arg)
  /\ lastOp.op = "getFirstByTag" =>
       firstReturned = IF Tagged(lastOp.arg) = <<>> THEN Nil
                       ELSE Tagged(lastOp.arg)[1]

\* a second getByTag("type:mesh") after the caller changed the array the
\* first one returned, in the scene that lists its cameras last
C30_Witness ==
  /\ sceneGraph = "late"
  /\ lastOp = Op("getByTag", "type:mesh")
  /\ touched = "type:mesh"
  /\ held.elements = <<"box">>
  /\ held.fresh

\* C31: in every state the selection id is non-null exactly when the current
\* gizmo is attached to the node of the object with that id, and the object
\* that transform events carry is the object with that id.
C31_SelectionMatchesGizmo ==
  /\ selectedId # Nil <=> (selectedId # Nil /\ AttachedTo(Object3d(selectedId)))
  /\ selectedRef = selectedId

\* C32: in every state a non-null selection id is the id of an object of the
\* selectable list, and no gizmo is attached to a camera node.
C32_OnlySelectable ==
  /\ selectedId # Nil => \E i \in 1..Len(objects) : objects[i] = selectedId
  /\ \A m \in Mounts : ~isCameraObject(transforms[m].object)

\* C33: in every state in which a navigation controller exists it is bound
\* to the active camera, and every gizmo that exists (constructed and not
\* disposed) refers to the active camera too.
C33_ControllersFollowCamera ==
  /\ orbitRef # 0 => orbit.camera = activeCameraRef
  /\ \A m \in Mounts :
       transforms[m].made /\ transforms[m].disposed = 0 =>
         transforms[m].camera = activeCameraRef

\* C34: no navigation controller, gizmo or render surface is ever disposed
\* more than once, and the teardown of a mount disposes no gizmo and no
\* render surface that another mount created.
C34_NoDoubleDisposal ==
  [][/\ \A i \in 1..Len(orbits') : orbits'[i] <= 1
     /\ \A m \in Mounts :
          transforms'[m].disposed <= 1 /\ renderers'[m].disposed <= 1
     /\ lastOp'.op = "teardown" =>
          \A m \in Mounts \ {cur} :
            /\ transforms'[m].disposed = transforms[m].disposed
            /\ renderers'[m].disposed = renderers[m].disposed
    ]_vars

(***************************************************************************)
(* Ownership of the navigation controller: the scene prop changes between  *)
(* mounts, and camera switches arrive at any time the handler is           *)
(* registered.                                                             *)
(***************************************************************************)
OwnerNext ==
  \/ \E scene \in {"nocam", "sample"} : SetScene(scene)
  \/ \E tag \in {""} : Mount(tag)
  \/ \E m \in Mounts : LoadNoCamera(m)
  \/ \E m \in Mounts, helperOk \in BOOLEAN : LoadSuccess(m, helperOk)
  \/ Teardown
  \/ \E h \in {"hA"} : Register(h)
  \/ \E tag \in {"camera:orthographic"} : CmdSetCameraByTag(tag)

SpecOwner == Init /\ [][OwnerNext]_vars

\* C35: when a teardown has finished, every navigation controller that was
\* ever constructed has been disposed.
C35_NoLeakedController ==
  [][lastOp'.op = "teardown" =>
       \A i \in 1..Len(orbits') : orbits'[i] >= 1]_vars

\* C36: in every state in which a gizmo exists (constructed and not disposed)
\* the manipulation-mode state, the mode recorded for transform events and
\* the gizmo's own mode are equal.
C36_ModeAgreement ==
  \A m \in Mounts :
    transforms[m].made /\ transforms[m].disposed = 0 =>
      /\ transformModeRef = transformMode
      /\ transforms[m].mode = transformMode

\* C37: a pointer-down on an initialized viewport emits exactly one event:
\* select with the selectable object whose node the nearest intersection is
\* or lies under, at any depth, and the selection is that object's id; or
\* deselect when the ray hits nothing, and the selection is null.
C37_PointerDownOutcome ==
  (Initialized /\ lastOp.op = "pointerdown") =>
    IF lastOp.arg = Nil
    THEN emitted = <<DeselectEv>> /\ selectedId = Nil
    ELSE \E i \in 1..Len(objects) :
           /\ \/ lastOp.arg = Object3d(objects[i])
              \/ lastOp.arg \in Descendants(Object3d(objects[i]))
           /\ emitted = <<SelectEv(objects[i])>>
           /\ selectedId = objects[i]

(***************************************************************************)
(* Camera operations on a viewport that has a selection and a mode.        *)
(***************************************************************************)
CamOpsNext ==
  \/ \E m \in Mounts : LoadSuccess(m, TRUE)
  \/ Teardown
  \/ \E id \in {"box"} : CmdSelectObject(id)
  \/ CmdClearSelection
  \/ \E mode \in {"rotate"} : CmdSetTransformMode(mode)
  \/ \E tag \in {"camera:orthographic", "missing"} : CmdSetCameraByTag(tag)
  \/ \E preset \in {"top"} : CmdMoveCameraToPreset(preset)
  \/ \E state \in {FrontState} : setCameraState(state)
  \/ roundTrip
  \/ \E failure \in {"none", "render"} : captureFrame(failure)
  \/ \E sz \in Sizes : handleResize(sz)

SpecCamOps == InitMounted /\ [][CamOpsNext]_vars

\* the operations on the camera and the frame
CameraOps == {"setCameraByTag", "moveCameraToPreset", "setCameraState",
              "roundTrip", "captureFrame", "resize"}

\* C38: a camera switch, a preset move, setCameraState, getCameraState,
\* captureFrame and a resize leave the selection id and the object of
\* transform events as they were, attach and detach no gizmo, leave the
\* manipulation mode as it was and emit no editor event.
C38_CameraOpsLeaveSelection ==
  [][lastOp'.op \in CameraOps =>
       /\ selectedId' = selectedId
       /\ selectedRef' = selectedRef
       /\ \A m \in Mounts :
            /\ transforms'[m].object = transforms[m].object
            /\ transforms'[m].mode = transforms[m].mode
       /\ transformMode' = transformMode
       /\ transformModeRef' = transformModeRef
       /\ emitted' = <<>>
       /\ delivered' = <<>>
    ]_vars

\* a preset move on the orthographic camera with the box selected, the gizmo
\* on it and the mode set to rotate
C38_Witness ==
  /\ lastOp = Op("moveCameraToPreset", "top")
  /\ calls # <<>>
  /\ activeCameraRef = "camO"
  /\ pose["camO"].position = presets("top")
  /\ selectedId = "box"
  /\ AttachedTo(Object3d("box"))
  /\ transformMode = "rotate"
  /\ transforms[cur].mode = "rotate"

(***************************************************************************)
(* A subscriber that subscribes several times and keeps every function it  *)
(* is returned, next to a subscriber that comes and goes.                  *)
(***************************************************************************)
SubsNext ==
  \/ \E l \in KeptListeners : SubscribeKeeping(l)
  \/ \E k \in 1..MaxSubscriptions : CallUnsubscribe(k)
  \/ \E l \in {"la"} : Subscribe(l)
  \/ \E l \in {"la"} : Unsubscribe(l)
  \/ \E event \in {DeselectEv} : EmitEvent(event)

SpecSubs == Init /\ [][SubsNext]_vars

\* the subscriber holds a function for l that it has not called
Subscribed(l) ==
  \E k \in 1..Len(unsubscribers) :
    unsubscribers[k].listener = l /\ unsubscribers[k].calls = 0

\* C39: an unsubscribe function cancels the subscription it was returned for
\* and no other: an emit invokes a listener of the subscriber exactly when
\* the subscriber holds a function for it that it has not called, whatever
\* other functions were called, and calling a function a second time leaves
\* the bus as it was.
C39_UnsubscribeOwnOnly ==
  [][/\ lastOp'.op = "emit" =>
          \A l \in KeptListeners : l \in Receivers' <=> Subscribed(l)
     /\ \A k \in 1..Len(unsubscribers) :
          (unsubscribers[k].calls = 1 /\ unsubscribers'[k].calls = 2) =>
            busListeners' = busListeners
    ]_vars

====
